---- MODULE Spec2Model ----
(***************************************************************************)
(* Model of the diff engine of tracer: the segment-driven resegmentation   *)
(* of hunks (transformFilesWithIntelligentHunks), the row builder of       *)
(* StructuredDiff (formatDiff, split rows), the similarity score, the      *)
(* linear hunk index, and the App: its keyboard navigation, the file       *)
(* dropdown and the cached analysis run.                                  *)
(*                                                                         *)
(* A diff line is a sequence of one-character strings, e.g. <<"+","c">>    *)
(* for "+c"; line[0] of the source is the head of that sequence.           *)
(***************************************************************************)
EXTENDS Integers, Sequences, FiniteSets, TLC

\* ------------------------------------------------------------------ bounds
\* longest hunk (in lines) of the resegmentation inputs
MaxLines == 4
\* most segments in one analysis (multi-hunk inputs)
MaxSegs == 2
\* most files in one diff (multi-hunk inputs)
MaxFiles == 2

VARIABLES
  \* transformFilesWithIntelligentHunks: arguments, position, locals, result
  parsedFiles, intelligentAnalysis, tpc, syntheticHunks, transformedFiles,
  \* StructuredDiff: props, position, the linePairs local of formatDiff, the
  \* formatDiff result, split and unified rows
  patch, splitView, dpc, linePairs, diff, splitLines, paddedDiff,
  \* calculateSimilarity: arguments, results, position
  simArgs, simResult, simpc,
  \* linearToFileHunk / fileHunkToLinear: arguments, results, position
  linFiles, linIndex, linCoord, linBack, lpc,
  \* useDiffStateStore (storedAnalysis is its intelligentAnalysis: <<>> for
  \* null, <<a>> for the result a)
  mode, currentFileIndex, currentHunkIndex, storedAnalysis, isAnalyzing,
  \* App and Dropdown state (searchMatches: the options that match searchText)
  showDropdown, selected, offset, searchMatches,
  \* the process: alive, the runAnalysis effect scheduled, its position, and
  \* its local cached (<<>> for null)
  running, effectPending, apc, cached,
  \* the run's inputs and the cache on disk
  selectedModel, gitDiff, repoDir, commitKey, diffIndex, analysisFiles,
  \* the calls of saveAnalysisCache that returned: <<repoDir, commitKey, diffSha>>
  saved

resegVars == <<parsedFiles, intelligentAnalysis, tpc, syntheticHunks, transformedFiles>>
diffVars == <<patch, splitView, dpc, linePairs, diff, splitLines, paddedDiff>>
simVars == <<simArgs, simResult, simpc>>
linVars == <<linFiles, linIndex, linCoord, linBack, lpc>>
storeVars == <<mode, currentFileIndex, currentHunkIndex, storedAnalysis, isAnalyzing>>
dropdownVars == <<showDropdown, selected, offset, searchMatches>>
runVars == <<running, effectPending, apc, cached>>
envVars == <<selectedModel, gitDiff, repoDir, commitKey>>
diskVars == <<diffIndex, analysisFiles, saved>>
appVars == <<storeVars, dropdownVars, runVars, envVars, diskVars>>

vars == <<resegVars, diffVars, simVars, linVars, appVars>>

\* ------------------------------------------------------------ JS primitives
\* the value of an absent optional property / of ""[0]
Undefined == "undefined"

Min(a, b) == IF a < b THEN a ELSE b
Max(a, b) == IF a > b THEN a ELSE b

\* ------------------------------------------------------------- resegmenter
\* getFileName: the new name unless absent or /dev/null, else the old name
getFileName(file) ==
  IF file.newFileName # Undefined /\ file.newFileName # "" /\ file.newFileName # "/dev/null"
    THEN file.newFileName
  ELSE IF file.oldFileName # Undefined /\ file.oldFileName # "" /\ file.oldFileName # "/dev/null"
    THEN file.oldFileName
  ELSE Undefined

\* line[0]
lineType(line) == IF Len(line) = 0 THEN Undefined ELSE line[1]

\* analysis.hunks.filter(h => h.file === fileName)
SegmentsOfFile(analysis, fileName) ==
  SelectSeq(analysis.hunks, LAMBDA h : h.file = fileName)

\* .sort((a, b) => a.lineStart - b.lineStart): a stable sort
RECURSIVE InsertByLineStart(_, _)
InsertByLineStart(sorted, seg) ==
  IF sorted = <<>> THEN <<seg>>
  ELSE IF sorted[Len(sorted)].lineStart <= seg.lineStart THEN Append(sorted, seg)
  ELSE Append(InsertByLineStart(SubSeq(sorted, 1, Len(sorted) - 1), seg), sorted[Len(sorted)])

\* a segment list used in the order of the analysis
SortByLineStartSkipped(segs) == segs

RECURSIVE SortByLineStart(_)
SortByLineStart(segs) ==
  IF segs = <<>> THEN <<>>
  ELSE InsertByLineStart(SortByLineStart(SubSeq(segs, 1, Len(segs) - 1)), segs[Len(segs)])

fileSegments(analysis, fileName) == SortByLineStart(SegmentsOfFile(analysis, fileName))

\* the overlap test of a segment against a hunk's declared new-file range
Overlaps(segment, originalHunk) ==
  LET hunkStart == originalHunk.newStart
      hunkEnd == originalHunk.newStart + originalHunk.newLines - 1
  IN segment.lineStart <= hunkEnd /\ segment.lineEnd >= hunkStart

\* the locals of the walk over one hunk, before its first line
WalkStart(originalHunk) ==
  [currentNewLine |-> originalHunk.newStart,
   currentOldLine |-> originalHunk.oldStart,
   segmentLines |-> <<>>,
   segmentOldStart |-> -1,
   capturing |-> FALSE,
   stopped |-> FALSE]

\* a walk that captures every remove line it passes
CaptureRemoveAlways(capturing) == TRUE

\* a walk that never captures a remove line
CaptureRemoveNever(capturing) == FALSE

\* shouldCapture of a remove line
CaptureRemove(capturing) == capturing

\* a range test that reads an inverted segment as the range between its bounds
InSegmentEitherWay(n, segment) ==
  n >= Min(segment.lineStart, segment.lineEnd) /\ n <= Max(segment.lineStart, segment.lineEnd)

\* currentNewLine >= segment.lineStart && currentNewLine <= segment.lineEnd
InSegment(n, segment) == n >= segment.lineStart /\ n <= segment.lineEnd

\* a walk that is never left early
WalkBreaksNever(capturing, n, segment) == FALSE

\* else if (capturing && currentNewLine > segment.lineEnd) break
WalkBreaks(capturing, n, segment) == capturing /\ n > segment.lineEnd

\* one iteration of "for (const line of originalHunk.lines)"
WalkLine(w, line, segment) ==
  LET t == lineType(line) IN
  IF w.stopped THEN w
  ELSE IF t = "-" THEN
    [w EXCEPT !.currentOldLine = @ + 1,
              !.segmentLines = IF CaptureRemove(w.capturing) THEN Append(@, line) ELSE @]
  ELSE IF t = "+" \/ t = " " THEN
    IF InSegment(w.currentNewLine, segment) THEN
      [w EXCEPT !.capturing = TRUE,
                !.segmentOldStart = IF w.capturing THEN @ ELSE w.currentOldLine,
                !.currentNewLine = @ + 1,
                !.currentOldLine = IF t = " " THEN @ + 1 ELSE @,
                !.segmentLines = Append(@, line)]
    ELSE IF WalkBreaks(w.capturing, w.currentNewLine, segment) THEN
      [w EXCEPT !.stopped = TRUE]
    ELSE
      [w EXCEPT !.currentNewLine = @ + 1,
                !.currentOldLine = IF t = " " THEN @ + 1 ELSE @]
  ELSE w

RECURSIVE WalkFrom(_, _, _, _)
WalkFrom(w, lines, segment, i) ==
  IF i > Len(lines) THEN w
  ELSE WalkFrom(WalkLine(w, lines[i], segment), lines, segment, i + 1)

Walk(originalHunk, segment) ==
  WalkFrom(WalkStart(originalHunk), originalHunk.lines, segment, 1)

\* a counting loop that counts a remove line toward both sides
CountLineRemoveAsContext(c, line) ==
  IF lineType(line) = "+" THEN [c EXCEPT !.newLines = @ + 1]
  ELSE [c EXCEPT !.newLines = @ + 1, !.oldLines = @ + 1]

\* the counting loop over the captured lines
CountLine(c, line) ==
  IF lineType(line) = "+" THEN [c EXCEPT !.newLines = @ + 1]
  ELSE IF lineType(line) = "-" THEN [c EXCEPT !.oldLines = @ + 1]
  ELSE [c EXCEPT !.newLines = @ + 1, !.oldLines = @ + 1]

RECURSIVE CountLines(_, _, _)
CountLines(c, lines, i) ==
  IF i > Len(lines) THEN c
  ELSE CountLines(CountLine(c, lines[i]), lines, i + 1)

\* newStart of the pushed synthetic hunk
SyntheticNewStart(segment, w) == segment.lineStart

\* the object pushed onto syntheticHunks
SyntheticHunk(originalHunk, segment, w) ==
  LET c == CountLines([oldLines |-> 0, newLines |-> 0], w.segmentLines, 1) IN
  [originalHunk EXCEPT !.oldStart = w.segmentOldStart,
                       !.newStart = SyntheticNewStart(segment, w),
                       !.oldLines = c.oldLines,
                       !.newLines = c.newLines,
                       !.lines = w.segmentLines]

\* "for (const originalHunk of file.hunks)": the first overlapping hunk is
\* walked and the loop is left, whether or not a line was captured
RECURSIVE SegmentHunks(_, _, _)

\* a hunk loop that goes on to the later hunks after a match
LaterHunksConsulted(hunks, segment, k) == SegmentHunks(hunks, segment, k + 1)

\* the "break" that ends the body of the overlap test: what the hunks after
\* the matching one contribute
LaterHunks(hunks, segment, k) == <<>>

SegmentHunks(hunks, segment, k) ==
  IF k > Len(hunks) THEN <<>>
  ELSE IF Overlaps(segment, hunks[k]) THEN
    LET w == Walk(hunks[k], segment) IN
    (IF Len(w.segmentLines) > 0 THEN <<SyntheticHunk(hunks[k], segment, w)>> ELSE <<>>)
      \o LaterHunks(hunks, segment, k)
  ELSE SegmentHunks(hunks, segment, k + 1)

\* "for (const segment of fileSegments)"
RECURSIVE SyntheticHunksFrom(_, _, _)
SyntheticHunksFrom(file, segs, s) ==
  IF s > Len(segs) THEN <<>>
  ELSE SegmentHunks(file.hunks, segs[s], 1) \o SyntheticHunksFrom(file, segs, s + 1)

SyntheticHunksOf(file, analysis) ==
  SyntheticHunksFrom(file, fileSegments(analysis, getFileName(file)), 1)

\* a replacement that keeps the original hunks after the synthetic ones
FallbackHunksAppended(synthetic, file) == synthetic \o file.hunks

\* a replacement without the fallback to the original hunks
FallbackHunksMissing(synthetic, file) == synthetic

\* hunks: syntheticHunks.length > 0 ? syntheticHunks : file.hunks
FallbackHunks(synthetic, file) ==
  IF Len(synthetic) > 0 THEN synthetic ELSE file.hunks

\* the element pushed onto transformedFiles for one named file
TransformFile(file, analysis) ==
  IF Len(fileSegments(analysis, getFileName(file))) = 0 THEN file
  ELSE [file EXCEPT !.hunks = FallbackHunks(SyntheticHunksOf(file, analysis), file)]

RECURSIVE transformFilesWithIntelligentHunks(_, _)
transformFilesWithIntelligentHunks(files, analysis) ==
  IF files = <<>> THEN <<>>
  ELSE LET rest == transformFilesWithIntelligentHunks(Tail(files), analysis) IN
       IF getFileName(Head(files)) = Undefined THEN rest
       ELSE <<TransformFile(Head(files), analysis)>> \o rest

\* ---------------------------------------------------------- row builder
\* null, and the id `snippet-${n}`
Null == <<>>
SnippetId(n) == <<"snippet-", n>>

\* code.startsWith(c) for a one-character c
startsWith(str, c) == Len(str) >= 1 /\ str[1] = c
\* code.slice(1)
slice1(str) == IF Len(str) >= 1 THEN Tail(str) ELSE <<>>

\* n.toString() of a non-negative integer, as its decimal digits
Digit(d) == <<"0", "1", "2", "3", "4", "5", "6", "7", "8", "9">>[d + 1]
RECURSIVE toString(_)
toString(n) == IF n < 10 THEN <<Digit(n)>> ELSE toString(n \div 10) \o <<Digit(n % 10)>>

\* " ".repeat(n) and str.padStart(width)
repeatSpace(n) == [i \in 1..n |-> " "]
padStart(str, width) == repeatSpace(width - Len(str)) \o str

\* the element of processedLines made from one line
ProcessLine(str) ==
  IF startsWith(str, "+") THEN [code |-> slice1(str), type |-> "add", originalCode |-> str]
  ELSE IF startsWith(str, "-") THEN [code |-> slice1(str), type |-> "remove", originalCode |-> str]
  ELSE [code |-> slice1(str), type |-> "nochange", originalCode |-> str]

processedLines(lines) == [i \in 1..Len(lines) |-> ProcessLine(lines[i])]

\* a minimum that leaves the substitution out
Min3NoSubstitute(a, b, c) == Min(a, b)

Min3(a, b, c) == Min(a, Min(b, c))

\* matrix[i][j] of levenshteinDistance
RECURSIVE matrix(_, _, _, _)
matrix(str1, str2, i, j) ==
  IF i = 0 THEN j
  ELSE IF j = 0 THEN i
  ELSE LET cost == IF str1[i] = str2[j] THEN 0 ELSE 1 IN
       Min3(matrix(str1, str2, i - 1, j) + 1,
            matrix(str1, str2, i, j - 1) + 1,
            matrix(str1, str2, i - 1, j - 1) + cost)

levenshteinDistance(str1, str2) == matrix(str1, str2, Len(str1), Len(str2))

\* calculateSimilarity, as the fraction num/den it divides out
calculateSimilarity(str1, str2) ==
  LET longer == IF Len(str1) > Len(str2) THEN str1 ELSE str2
      shorter == IF Len(str1) > Len(str2) THEN str2 ELSE str1
  IN IF Len(longer) = 0 THEN [num |-> 1, den |-> 1]
     ELSE [num |-> Len(longer) - levenshteinDistance(longer, shorter), den |-> Len(longer)]

\* similarity < 0.5
shouldSkipWordDiff(similarity) == 2 * similarity.num < similarity.den

\* hasRemovals && hasAdditions
shouldShowWordDiff(pl) ==
  /\ \E i \in 1..Len(pl) : pl[i].type = "remove"
  /\ \E i \in 1..Len(pl) : pl[i].type = "add"

\* the index after the run of lines of one type that starts at j
RECURSIVE RunEnd(_, _, _)
RunEnd(pl, j, type) ==
  IF j <= Len(pl) /\ pl[j].type = type THEN RunEnd(pl, j + 1, type) ELSE j

\* a pairing of the first remove with the first add only
PairCountFirstOnly(removes, adds) == Min(1, Min(removes, adds))

\* minLength of a run of removes and the run of adds after it
PairCount(removes, adds) == Min(removes, adds)

\* the while loop that fills linePairs, from index i on (indices from 1)
RECURSIVE PairsFrom(_, _)
PairsFrom(pl, i) ==
  IF i > Len(pl) THEN <<>>
  ELSE IF pl[i].type = "remove" THEN
    LET j == RunEnd(pl, i, "remove")
        e == RunEnd(pl, j, "add")
        minLength == PairCount(j - i, e - j)
    IN [k \in 1..minLength |-> [remove |-> i + k - 1, add |-> j + k - 1]] \o PairsFrom(pl, e)
  ELSE PairsFrom(pl, i + 1)

\* the linePairs local of formatDiff
LinePairsOf(pl) == IF shouldShowWordDiff(pl) THEN PairsFrom(pl, 1) ELSE <<>>

\* linePairs.find((p) => p.remove === i || p.add === i): <<p>> or <<>>
RECURSIVE FindPair(_, _, _)
FindPair(pairs, i, k) ==
  IF k > Len(pairs) THEN <<>>
  ELSE IF pairs[k].remove = i \/ pairs[k].add = i THEN <<pairs[k]>>
  ELSE FindPair(pairs, i, k + 1)

\* the seeds of oldLineNumber and newLineNumber
OldSeed(startingLineNumber) == startingLineNumber
NewSeed(startingLineNumber) == startingLineNumber

\* the locals of the row loop before its first iteration
RowStart(startingLineNumber) ==
  [oldLineNumber |-> OldSeed(startingLineNumber),
   newLineNumber |-> NewSeed(startingLineNumber),
   result |-> <<>>,
   snippetCounter |-> 0,
   activeSnippetId |-> Null]

\* a getSnippetId that keeps the active id across a context line
getSnippetIdNoReset(r, type) ==
  IF type = "add" \/ type = "remove" THEN
    IF r.activeSnippetId = Null
      THEN [r EXCEPT !.snippetCounter = @ + 1, !.activeSnippetId = SnippetId(r.snippetCounter + 1)]
      ELSE r
  ELSE r

\* getSnippetId(lineType): the locals after the call; the id it returns is
\* their activeSnippetId
getSnippetId(r, type) ==
  IF type = "add" \/ type = "remove" THEN
    IF r.activeSnippetId = Null
      THEN [r EXCEPT !.snippetCounter = @ + 1, !.activeSnippetId = SnippetId(r.snippetCounter + 1)]
      ELSE r
  ELSE [r EXCEPT !.activeSnippetId = Null]

\* the object pushed onto result; code records the line it renders and
\* whether it is rendered through diffWords
Pushed(r, type, i, text, wordDiff) ==
  [code |-> [line |-> i, text |-> text, wordDiff |-> wordDiff],
   type |-> type,
   oldLineNumber |-> r.oldLineNumber,
   newLineNumber |-> r.newLineNumber,
   snippetId |-> r.activeSnippetId]

\* the same object with the optional pairedWith
PushedPaired(r, type, i, text, wordDiff, pairedWith) ==
  [pairedWith |-> pairedWith] @@ Pushed(r, type, i, text, wordDiff)

\* the if/else at the end of the loop body
Advance(r, type) ==
  IF type = "remove" THEN [r EXCEPT !.oldLineNumber = @ + 1]
  ELSE IF type = "add" THEN [r EXCEPT !.newLineNumber = @ + 1]
  ELSE [r EXCEPT !.oldLineNumber = @ + 1, !.newLineNumber = @ + 1]

\* !removedText
EmptyText(text) == Len(text) = 0

\* one iteration of the row loop for line i
RowStep(r0, pl, pairs, i) ==
  LET type == pl[i].type
      r == getSnippetId(r0, type)
      found == FindPair(pairs, i, 1)
  IN
  IF found # <<>> /\ found[1].remove = i THEN
    LET removedText == pl[i].code
        addedText == pl[found[1].add].code
    IN
    IF EmptyText(removedText) THEN r
    ELSE IF shouldSkipWordDiff(calculateSimilarity(removedText, addedText)) THEN
      [r EXCEPT !.result = Append(@, PushedPaired(r, type, i, removedText, FALSE, found[1].add)),
                !.oldLineNumber = @ + 1]
    ELSE
      Advance([r EXCEPT !.result = Append(@, PushedPaired(r, type, i, removedText, TRUE, found[1].add)),
                        !.oldLineNumber = @ + 1], type)
  ELSE IF found # <<>> /\ found[1].add = i THEN
    LET removedText == pl[found[1].remove].code
        addedText == pl[i].code
    IN
    IF shouldSkipWordDiff(calculateSimilarity(removedText, addedText)) THEN
      [r EXCEPT !.result = Append(@, PushedPaired(r, type, i, addedText, FALSE, found[1].remove)),
                !.newLineNumber = @ + 1]
    ELSE
      Advance([r EXCEPT !.result = Append(@, PushedPaired(r, type, i, addedText, TRUE, found[1].remove)),
                        !.newLineNumber = @ + 1], type)
  ELSE
    Advance([r EXCEPT !.result = Append(@, Pushed(r, type, i, pl[i].code, FALSE))], type)

RECURSIVE RowsFrom(_, _, _, _)
RowsFrom(r, pl, pairs, i) ==
  IF i > Len(pl) THEN r
  ELSE RowsFrom(RowStep(r, pl, pairs, i), pl, pairs, i + 1)

\* result.map(...): the numbers as strings, and the key `line-${index}`
Formatted(row, index) ==
  [oldLineNumber |-> toString(row.oldLineNumber),
   newLineNumber |-> toString(row.newLineNumber),
   key |-> <<"line-", index - 1>>] @@ row

formatDiff(lines, startingLineNumber, isSplitView) ==
  LET pl == processedLines(lines)
      r == RowsFrom(RowStart(startingLineNumber), pl, LinePairsOf(pl), 1)
  IN [index \in 1..Len(r.result) |-> Formatted(r.result[index], index)]

\* hunks[0]?.oldStart || 1
OrOne(n) == IF n = 0 THEN 1 ELSE n

\* the reduce of FileEditPreview that yields maxOldLine, for one hunk
RECURSIVE maxOldLine(_, _, _, _)
maxOldLine(lines, i, oldLineNum, max) ==
  IF i > Len(lines) THEN max
  ELSE IF startsWith(lines[i], "-") THEN maxOldLine(lines, i + 1, oldLineNum + 1, Max(max, oldLineNum))
  ELSE IF startsWith(lines[i], "+") THEN maxOldLine(lines, i + 1, oldLineNum, max)
  ELSE maxOldLine(lines, i + 1, oldLineNum + 1, Max(max, oldLineNum))

\* the reduce of FileEditPreview that yields maxNewLine, for one hunk
RECURSIVE maxNewLine(_, _, _, _)
maxNewLine(lines, i, newLineNum, max) ==
  IF i > Len(lines) THEN max
  ELSE IF startsWith(lines[i], "-") THEN maxNewLine(lines, i + 1, newLineNum, max)
  ELSE IF startsWith(lines[i], "+") THEN maxNewLine(lines, i + 1, newLineNum + 1, Max(max, newLineNum))
  ELSE maxNewLine(lines, i + 1, newLineNum + 1, Max(max, newLineNum))

\* the props FileEditPreview passes for a file of the one hunk h
leftMaxWidth(h) == Len(toString(maxOldLine(h.lines, 1, OrOne(h.oldStart), 0)))
rightMaxWidth(h) == Len(toString(maxNewLine(h.lines, 1, OrOne(h.newStart), 0)))

\* the blank side of a split row
EmptySide(width, key, side) ==
  [lineNumber |-> repeatSpace(width),
   code |-> [line |-> 0, text |-> <<>>, wordDiff |-> FALSE],
   type |-> "empty",
   key |-> key \o <<side>>,
   snippetId |-> Null]

\* { ...line, lineNumber: number.padStart(width) }
Side(line, number, width) == [lineNumber |-> padStart(number, width)] @@ line

\* line.pairedWith !== undefined
HasPairedWith(line) == "pairedWith" \in DOMAIN line

\* one iteration of the loop that fills splitLines; s holds splitLines and
\* processedIndices
SplitStep(s, d, i, lw, rw) ==
  IF i \in s.processedIndices THEN s
  ELSE IF d[i].type = "remove" /\ HasPairedWith(d[i]) THEN
    IF d[i].pairedWith \in 1..Len(d) THEN
      [splitLines |-> Append(s.splitLines,
                             [left |-> Side(d[i], d[i].oldLineNumber, lw),
                              right |-> Side(d[d[i].pairedWith], d[d[i].pairedWith].newLineNumber, rw)]),
       processedIndices |-> s.processedIndices \cup {i, d[i].pairedWith}]
    ELSE s
  ELSE IF d[i].type = "add" /\ HasPairedWith(d[i]) THEN s
  ELSE IF d[i].type = "remove" THEN
    [splitLines |-> Append(s.splitLines,
                           [left |-> Side(d[i], d[i].oldLineNumber, lw),
                            right |-> EmptySide(rw, d[i].key, "-empty-right")]),
     processedIndices |-> s.processedIndices \cup {i}]
  ELSE IF d[i].type = "add" THEN
    [splitLines |-> Append(s.splitLines,
                           [left |-> EmptySide(lw, d[i].key, "-empty-left"),
                            right |-> Side(d[i], d[i].newLineNumber, rw)]),
     processedIndices |-> s.processedIndices \cup {i}]
  ELSE
    [splitLines |-> Append(s.splitLines,
                           [left |-> Side(d[i], d[i].oldLineNumber, lw),
                            right |-> Side(d[i], d[i].newLineNumber, rw)]),
     processedIndices |-> s.processedIndices \cup {i}]

RECURSIVE SplitFrom(_, _, _, _, _)
SplitFrom(s, d, i, lw, rw) ==
  IF i > Len(d) THEN s
  ELSE SplitFrom(SplitStep(s, d, i, lw, rw), d, i + 1, lw, rw)

SplitRows(d, lw, rw) ==
  SplitFrom([splitLines |-> <<>>, processedIndices |-> {}], d, 1, lw, rw).splitLines

\* the lineNumber column of a unified row
UnifiedNumber(item, maxWidth) ==
  IF Len(item.newLineNumber) > 0 /\ item.newLineNumber # <<"0">>
    THEN padStart(item.newLineNumber, maxWidth)
    ELSE repeatSpace(maxWidth)

PaddedRows(d, maxWidth) ==
  [i \in 1..Len(d) |-> [lineNumber |-> UnifiedNumber(d[i], maxWidth)] @@ d[i]]

\* ------------------------------------------------- resegmenter: the inputs
Markers == {"+", "-", " ", "\\"}

\* the text of the i-th line of a hunk: distinct letters, so that a line of a
\* hunk is identified by its content
Letter(i) == <<"a", "b", "c", "d", "e", "f", "g", "h">>[((i - 1) % 8) + 1]

LinesOf(markers) == [i \in 1..Len(markers) |-> <<markers[i], Letter(i)>>]

ActualNew(markers) == Cardinality({i \in 1..Len(markers) : markers[i] # "-"})
ActualOld(markers) == Cardinality({i \in 1..Len(markers) : markers[i] # "+"})

\* a hunk whose header counts are off by skew from the counted lines
MkHunk(oldStart, newStart, markers, skew) ==
  [oldStart |-> oldStart,
   oldLines |-> Max(0, ActualOld(markers) + skew),
   newStart |-> newStart,
   newLines |-> Max(0, ActualNew(markers) + skew),
   lines |-> LinesOf(markers)]

MkFile(oldName, newName, hunks) ==
  [oldFileName |-> oldName, newFileName |-> newName, hunks |-> hunks]

\* the classification the analysis gives a segment: in the inputs, one per
\* range, later lines being the more important
ClassificationAt(lineStart) ==
  IF lineStart >= 25 THEN "breaking" ELSE IF lineStart >= 21 THEN "feature" ELSE "fix"

MkSegment(file, lineStart, lineEnd) ==
  [file |-> file, lineStart |-> lineStart, lineEnd |-> lineEnd,
   classification |-> ClassificationAt(lineStart)]

MkAnalysis(segs) == [hunks |-> segs]

DeclaredSkew == {-1, 0, 1}

MarkerSeqs == UNION {[1..n -> Markers] : n \in 1..MaxLines}

SeqsUpTo(S, n) == UNION {[1..k -> S] : k \in 0..n}

\* one modified file with one hunk at -10 +20, every line sequence, and at
\* most one segment around the hunk
SingleHunkFile(m, k) == MkFile("a.ts", "a.ts", <<MkHunk(10, 20, m, k)>>)
SingleHunkSegments == {MkSegment("a.ts", s, e) : s \in 19..22, e \in 19..22}

\* a renamed file without hunks, a created file, a deleted file, a modified
\* file with two hunks and a modified file whose first hunk only deletes, in
\* the order of their size
LibraryFile(n, k) ==
  CASE n = 1 -> MkFile("d.ts", "e.ts", <<>>)
    [] n = 2 -> MkFile("/dev/null", "b.ts", <<MkHunk(0, 1, <<"+", "+">>, k)>>)
    [] n = 3 -> MkFile("c.ts", "/dev/null", <<MkHunk(1, 0, <<"-", "-">>, 0)>>)
    [] n = 4 -> MkFile("a.ts", "a.ts",
                       <<MkHunk(10, 20, <<" ", "-", "+", " ">>, k),
                         MkHunk(15, 25, <<"-", "+", "+">>, k)>>)
    [] n = 5 -> MkFile("f.ts", "f.ts",
                       <<MkHunk(5, 4, <<"-", "-", "-">>, 0),
                         MkHunk(12, 9, <<"+", " ", "-", " ", "+">>, 0)>>)

\* parsedFiles is sorted by the number of lines of a file
FileLists(k) ==
  UNION {{[i \in 1..n |-> LibraryFile(f[i], k)] :
            f \in {g \in [1..n -> 1..5] : \A i, j \in 1..n : i < j => g[i] < g[j]}} :
         n \in 1..MaxFiles}

LibrarySegments ==
  {MkSegment("a.ts", r[1], r[2]) :
     r \in {<<20, 21>>, <<21, 22>>, <<22, 26>>, <<21, 20>>, <<23, 25>>, <<20, 20>>}}
    \cup {MkSegment("b.ts", 1, 2), MkSegment("b.ts", 2, 1), MkSegment("e.ts", 1, 2),
          MkSegment("f.ts", 10, 11), MkSegment("f.ts", 3, 10)}

\* the segments an analysis of these files is made of: those that name one of
\* them, and the one of e.ts, the name of no file unless the renamed file is
\* among them
SegmentsFor(fl) ==
  {s \in LibrarySegments : s.file = "e.ts" \/ \E i \in 1..Len(fl) : getFileName(fl[i]) = s.file}

\* several files out of the library, their header counts as counted or one
\* too many, and at most MaxSegs segments
MultiHunkFiles == UNION {FileLists(k) : k \in {0, 1}}

\* the state of the other component while one is exercised
NoPatch == [oldStart |-> 0, oldLines |-> 0, newStart |-> 0, newLines |-> 0, lines |-> <<>>]
DiffIdle ==
  /\ patch = NoPatch
  /\ splitView = FALSE
  /\ dpc = "idle"
  /\ linePairs = <<>>
  /\ diff = <<>>
  /\ splitLines = <<>>
  /\ paddedDiff = <<>>

ResegIdle ==
  /\ parsedFiles = <<>>
  /\ intelligentAnalysis = MkAnalysis(<<>>)
  /\ tpc = "idle"
  /\ syntheticHunks = <<>>
  /\ transformedFiles = <<>>

\* ------------------------------------------------------- the cache on disk
\* the models --model accepts
Models == {"claude", "codex"}
\* the diff texts, repository roots and commit keys of the runs
Diffs == {"d1", "d2"}
Repos == {"/r"}
Commits == {"c1"}

\* crypto.createHash("sha1").update(text).digest("hex"), taken to be free of
\* collisions: the digest stands for the text it was made of
sha1(text) == <<"sha1", text>>

\* `v2:${selectedModel}:${gitDiff}`
KeyText(model, text) == <<"v2", ":", model, ":", text>>

diffShaOf(model, text) == sha1(KeyText(model, text))

DiffShas == {diffShaOf(m, d) : m \in Models, d \in Diffs}

\* index[repoDir]?.[commitKey], <<>> standing for an absent entry
EmptyIndex == [rc \in Repos \X Commits |-> <<>>]
\* the files of TRACER_ANALYSIS_DIR: <<>> for no file, <<a>> for the file a
NoFiles == [k \in DiffShas |-> <<>>]

SimIdle ==
  /\ simArgs = <<<<>>, <<>>>>
  /\ simResult = <<>>
  /\ simpc = "idle"

LinIdle ==
  /\ linFiles = <<>>
  /\ linIndex = 0
  /\ linCoord = [fileIndex |-> 0, hunkIndex |-> 0]
  /\ linBack = 0
  /\ lpc = "idle"

\* FILE_NAVIGATION .. INTELLIGENT
Mode == [FILE_NAVIGATION |-> 0, HUNK_NAVIGATION |-> 1, HUNK_ONLY |-> 2, INTELLIGENT |-> 3]

\* the initial state of the store; the process not started
AppIdle ==
  /\ mode = Mode.HUNK_ONLY
  /\ currentFileIndex = 0
  /\ currentHunkIndex = 0
  /\ storedAnalysis = <<>>
  /\ isAnalyzing = FALSE
  /\ showDropdown = FALSE
  /\ selected = 0
  /\ offset = 0
  /\ searchMatches = {}
  /\ running = FALSE
  /\ effectPending = FALSE
  /\ apc = "idle"
  /\ cached = <<>>
  /\ selectedModel = "claude"
  /\ gitDiff = ""
  /\ repoDir = ""
  /\ commitKey = ""
  /\ diffIndex = EmptyIndex
  /\ analysisFiles = NoFiles
  /\ saved = {}

\* ----------------------------------------------- resegmenter: the machine
InitReseg ==
  /\ \/ \E m \in MarkerSeqs, k \in DeclaredSkew, segs \in SeqsUpTo(SingleHunkSegments, 1) :
          /\ parsedFiles = <<SingleHunkFile(m, k)>>
          /\ intelligentAnalysis = MkAnalysis(segs)
     \/ \E fl \in MultiHunkFiles : \E segs \in SeqsUpTo(SegmentsFor(fl), MaxSegs) :
          /\ parsedFiles = fl
          /\ intelligentAnalysis = MkAnalysis(segs)
  /\ tpc = "call"
  /\ syntheticHunks = <<>>
  /\ transformedFiles = <<>>
  /\ DiffIdle /\ SimIdle /\ LinIdle /\ AppIdle

\* the named files of the input, in order (the files the loop does not skip)
NamedFiles(files) == SelectSeq(files, LAMBDA f : getFileName(f) # Undefined)

\* one call of transformFilesWithIntelligentHunks(parsedFiles, intelligentAnalysis);
\* syntheticHunks records the local of that name for every named file
TransformFiles ==
  /\ tpc = "call"
  /\ transformedFiles' = transformFilesWithIntelligentHunks(parsedFiles, intelligentAnalysis)
  /\ syntheticHunks' = [i \in 1..Len(NamedFiles(parsedFiles)) |->
                          SyntheticHunksOf(NamedFiles(parsedFiles)[i], intelligentAnalysis)]
  /\ tpc' = "done"
  /\ UNCHANGED <<parsedFiles, intelligentAnalysis, diffVars, simVars, linVars, appVars>>

NextReseg == TransformFiles

SpecReseg == InitReseg /\ [][NextReseg]_vars

\* ------------------------------------------------ row builder: the inputs
\* longest hunk (in lines) of the row builder inputs with free texts
MaxDiffLines == 3
\* longest hunk (in lines) of the row builder inputs with one text
MaxPairLines == 5

\* texts with similarities 1 (equal, or both empty), 1/2 and 0
DiffTexts == {<<>>, <<"x">>, <<"x", "y">>}

\* add and remove lines of every text, a context line and a line with an
\* unrecognised marker
DiffLines ==
  {<<mk>> \o t : mk \in {"+", "-"}, t \in DiffTexts} \cup {<<" ", "x">>, <<"\\", "x">>}

\* header starts: a modified file, with a change of width, and a created file
StartPairs == {<<9, 12>>, <<0, 1>>}

\* the hunk of spec 8.4
PairExampleLines ==
  <<<<"-", "f", "o", "o">>, <<"-", "b", "a", "r">>, <<"+", "f", "o", "o", "2">>,
    <<"+", "b", "a", "z">>, <<"+", "q", "u", "x">>>>

DiffLineSeqs ==
  SeqsUpTo(DiffLines, MaxDiffLines)
    \cup UNION {[1..n -> {<<"+", "x">>, <<"-", "x">>, <<" ", "x">>}] :
                  n \in (MaxDiffLines + 1)..MaxPairLines}
    \cup {PairExampleLines}

DiffPatches ==
  {[oldStart |-> st[1],
    oldLines |-> Cardinality({i \in 1..Len(ls) : ~startsWith(ls[i], "+")}),
    newStart |-> st[2],
    newLines |-> Cardinality({i \in 1..Len(ls) : ~startsWith(ls[i], "-")}),
    lines |-> ls] : st \in StartPairs, ls \in DiffLineSeqs}

\* ---------------------------------------------- row builder: the machine
InitDiff ==
  /\ patch \in DiffPatches
  /\ splitView = FALSE
  /\ dpc = "props"
  /\ linePairs = <<>>
  /\ diff = <<>>
  /\ splitLines = <<>>
  /\ paddedDiff = <<>>
  /\ ResegIdle /\ SimIdle /\ LinIdle /\ AppIdle

\* StructuredDiff rendered with splitView = true
RenderSplit ==
  /\ dpc = "props"
  /\ splitView' = TRUE
  /\ linePairs' = LinePairsOf(processedLines(patch.lines))
  /\ diff' = formatDiff(patch.lines, patch.oldStart, TRUE)
  /\ splitLines' = SplitRows(diff', leftMaxWidth(patch), rightMaxWidth(patch))
  /\ paddedDiff' = <<>>
  /\ dpc' = "rendered"
  /\ UNCHANGED <<patch, resegVars, simVars, linVars, appVars>>

\* StructuredDiff rendered with splitView = false
RenderUnified ==
  /\ dpc = "props"
  /\ splitView' = FALSE
  /\ linePairs' = LinePairsOf(processedLines(patch.lines))
  /\ diff' = formatDiff(patch.lines, patch.oldStart, FALSE)
  /\ paddedDiff' = PaddedRows(diff', Max(leftMaxWidth(patch), rightMaxWidth(patch)))
  /\ splitLines' = <<>>
  /\ dpc' = "rendered"
  /\ UNCHANGED <<patch, resegVars, simVars, linVars, appVars>>

NextDiff == RenderSplit \/ RenderUnified

SpecDiff == InitDiff /\ [][NextDiff]_vars

\* -------------------------------------------------- similarity: the machine
\* longest string of the similarity inputs
MaxStrLen == 3

\* every string over two letters, and the strings of the examples
SimStrings ==
  SeqsUpTo({"a", "b"}, MaxStrLen)
    \cup {<<"c", "a", "t">>, <<"b", "a", "t">>, <<"x", "y", "z">>}

InitSim ==
  /\ simArgs \in SimStrings \X SimStrings
  /\ simResult = <<>>
  /\ simpc = "call"
  /\ ResegIdle /\ DiffIdle /\ LinIdle /\ AppIdle

\* calculateSimilarity(a, b), and the same call with the arguments swapped
\* and with the first argument twice
CallSimilarity ==
  /\ simpc = "call"
  /\ simResult' = [ab |-> calculateSimilarity(simArgs[1], simArgs[2]),
                   ba |-> calculateSimilarity(simArgs[2], simArgs[1]),
                   aa |-> calculateSimilarity(simArgs[1], simArgs[1])]
  /\ simpc' = "done"
  /\ UNCHANGED <<simArgs, resegVars, diffVars, linVars, appVars>>

NextSim == CallSimilarity

SpecSim == InitSim /\ [][NextSim]_vars

\* ------------------------------------------------ linear index: operators
\* files.reduce((sum, file) => sum + file.hunks.length, 0)
RECURSIVE getTotalHunks(_)
getTotalHunks(files) ==
  IF files = <<>> THEN 0 ELSE Len(Head(files).hunks) + getTotalHunks(Tail(files))

\* a test that also accepts the index one past the last hunk of a file
InFileInclusive(remaining, hunkCount) == remaining <= hunkCount

\* remaining < hunkCount
InFile(remaining, hunkCount) == remaining < hunkCount

\* the for loop of linearToFileHunk from fileIndex on (indices from 0, as in
\* the source; files[fileIndex] is the element fileIndex + 1 of the sequence)
RECURSIVE LinearLoop(_, _, _)
LinearLoop(files, fileIndex, remaining) ==
  IF fileIndex < Len(files) THEN
    LET hunkCount == Len(files[fileIndex + 1].hunks) IN
    IF InFile(remaining, hunkCount)
      THEN [fileIndex |-> fileIndex, hunkIndex |-> remaining]
      ELSE LinearLoop(files, fileIndex + 1, remaining - hunkCount)
  ELSE [fileIndex |-> Len(files) - 1,
        hunkIndex |-> IF Len(files) > 0 THEN Len(files[Len(files)].hunks) - 1 ELSE 0]

linearToFileHunk(files, linearIndex) == LinearLoop(files, 0, linearIndex)

\* the sum of files[i]?.hunks.length || 0 for i < fileIndex
RECURSIVE LinearBefore(_, _)
LinearBefore(files, fileIndex) ==
  IF fileIndex <= 0 THEN 0
  ELSE (IF fileIndex <= Len(files) THEN Len(files[fileIndex].hunks) ELSE 0)
         + LinearBefore(files, fileIndex - 1)

fileHunkToLinear(files, fileIndex, hunkIndex) == LinearBefore(files, fileIndex) + hunkIndex

\* -------------------------------------------------- linear index: the machine
\* most files of a list, and most hunks of a file, of the linear index inputs
MaxLinFiles == 3
MaxLinHunks == 2

\* a file of n hunks
HunkFile(n) == [hunks |-> [k \in 1..n |-> [newStart |-> k]]]

\* every list of hunk counts, and the counts [0, 3, 0, 2]
LinFileLists ==
  {[i \in 1..Len(c) |-> HunkFile(c[i])] :
     c \in SeqsUpTo(0..MaxLinHunks, MaxLinFiles) \cup {<<0, 3, 0, 2>>}}

InitLin ==
  /\ linFiles \in LinFileLists
  /\ linIndex \in -2..(getTotalHunks(linFiles) + 1)
  /\ linCoord = [fileIndex |-> 0, hunkIndex |-> 0]
  /\ linBack = 0
  /\ lpc = "call"
  /\ ResegIdle /\ DiffIdle /\ SimIdle /\ AppIdle

LinearToFileHunk ==
  /\ lpc = "call"
  /\ linCoord' = linearToFileHunk(linFiles, linIndex)
  /\ lpc' = "coord"
  /\ UNCHANGED <<linFiles, linIndex, linBack, resegVars, diffVars, simVars, appVars>>

FileHunkToLinear ==
  /\ lpc = "coord"
  /\ linBack' = fileHunkToLinear(linFiles, linCoord.fileIndex, linCoord.hunkIndex)
  /\ lpc' = "back"
  /\ UNCHANGED <<linFiles, linIndex, linCoord, resegVars, diffVars, simVars, appVars>>

NextLin == LinearToFileHunk \/ FileHunkToLinear

SpecLin == InitLin /\ [][NextLin]_vars

\* ------------------------------------------------------ the App: operators
ANALYSIS_VERSION == "v2"

\* a result of analyzeDiff(text, model): the segments the analyzer returned
\* (none when it failed) and the version; origin records the model and the
\* diff text the result was made for (the timestamp is left out)
AnalysisOf(model, text, segs) ==
  [hunks |-> segs, version |-> ANALYSIS_VERSION, origin |-> <<model, text>>]

\* a load that does not compare the index entry with the key
loadCachedAnalysisAnyKey(index, files, repo, commit, diffSha) ==
  IF index[<<repo, commit>>] = <<>> THEN <<>>
  ELSE LET c == files[index[<<repo, commit>>]] IN
       IF c = <<>> \/ c[1].version # "v2" THEN <<>> ELSE c

\* loadCachedAnalysis over the index and the files on disk: <<>> for null
loadCachedAnalysis(index, files, repo, commit, diffSha) ==
  IF index[<<repo, commit>>] # diffSha THEN <<>>
  ELSE LET c == files[diffSha] IN
       IF c = <<>> \/ c[1].version # "v2" THEN <<>> ELSE c

\* the displayFiles of App
displayFiles ==
  IF mode = Mode.INTELLIGENT /\ storedAnalysis # <<>> /\ ~isAnalyzing
    THEN transformFilesWithIntelligentHunks(parsedFiles, storedAnalysis[1])
    ELSE parsedFiles

\* AppWithWatch renders <App>: there are files and no analysis is shown running
AppMounted ==
  /\ running
  /\ parsedFiles # <<>>
  /\ ~(mode = Mode.INTELLIGENT /\ isAnalyzing)

\* the App handles a key: it is mounted and the effects of the last render ran
AppHandlesKey == AppMounted /\ ~effectPending

\* a mode after 'm' that stays within the three plain modes
NextModeOfThree(md) == (md + 1) % 3

\* (state.mode + 1) % 4
NextMode(md) == (md + 1) % 4

\* the n-th (from 0) of the matching options, in the order of the options
NthMatch(n) == CHOOSE x \in searchMatches : Cardinality({y \in searchMatches : y < x}) = n

itemsPerPage == 10

DropdownClosed ==
  /\ showDropdown' = FALSE
  /\ selected' = 0
  /\ offset' = 0
  /\ searchMatches' = {}

\* handleFileSelect(String(n))
handleFileSelect(n) ==
  /\ currentFileIndex' = n
  /\ currentHunkIndex' = 0
  /\ DropdownClosed

\* move(direction) of Dropdown
move(direction) ==
  LET itemCount == Cardinality(searchMatches) IN
  IF itemCount = 0 THEN UNCHANGED <<selected, offset>>
  ELSE IF direction = 1 THEN
    LET nextIndex == (selected + 1) % itemCount
        visibleEnd == offset + itemsPerPage - 1
    IN /\ selected' = nextIndex
       /\ offset' = IF selected = visibleEnd /\ nextIndex < itemCount /\ nextIndex > selected
                      THEN offset + 1
                    ELSE IF nextIndex < selected THEN 0
                    ELSE offset
  ELSE
    LET nextIndex == (selected - 1 + itemCount) % itemCount
    IN /\ selected' = nextIndex
       /\ offset' = IF nextIndex < offset THEN Max(0, nextIndex)
                    ELSE IF nextIndex >= offset + itemsPerPage THEN Max(0, itemCount - itemsPerPage)
                    ELSE offset

\* the move of the two linear modes: step is -1 for left and 1 for right
LinearMove(step) ==
  LET totalHunks == getTotalHunks(displayFiles)
      currentLinear == fileHunkToLinear(displayFiles, currentFileIndex, currentHunkIndex)
      newLinear == IF step = -1 THEN Max(0, currentLinear - 1)
                   ELSE Min(totalHunks - 1, currentLinear + 1)
      c == linearToFileHunk(displayFiles, newLinear)
  IN /\ currentFileIndex' = c.fileIndex
     /\ currentHunkIndex' = c.hunkIndex

\* the move to the file before or after, at its first hunk
FileMove(step) ==
  /\ currentFileIndex' = IF step = -1 THEN Max(0, currentFileIndex - 1)
                         ELSE Min(Len(displayFiles) - 1, currentFileIndex + 1)
  /\ currentHunkIndex' = 0

\* the move to the hunk before or after in displayFiles[currentFileIndex]
HunkMove(step) ==
  /\ IF currentFileIndex \in 0..(Len(displayFiles) - 1) THEN
       currentHunkIndex' =
         IF step = -1 THEN Max(0, currentHunkIndex - 1)
         ELSE Min(Len(displayFiles[currentFileIndex + 1].hunks) - 1, currentHunkIndex + 1)
     ELSE UNCHANGED currentHunkIndex
  /\ UNCHANGED currentFileIndex

\* what the rest of the model keeps while the App acts
AppFrame == UNCHANGED <<resegVars, diffVars, simVars, linVars>>

\* -------------------------------------------------------- the App: the keys
\* 'm' with the dropdown closed; the change of mode schedules the effect
KeyM ==
  /\ AppHandlesKey /\ ~showDropdown
  /\ mode' = NextMode(mode)
  /\ effectPending' = TRUE
  /\ UNCHANGED <<currentFileIndex, currentHunkIndex, storedAnalysis, isAnalyzing,
                 dropdownVars, running, apc, cached, envVars, diskVars>>
  /\ AppFrame

\* ctrl+p, or a click on the file name
OpenDropdown ==
  /\ AppHandlesKey /\ ~showDropdown
  /\ showDropdown' = TRUE
  /\ selected' = 0
  /\ offset' = 0
  /\ searchMatches' = 0..(Len(displayFiles) - 1)
  /\ UNCHANGED <<storeVars, runVars, envVars, diskVars>>
  /\ AppFrame

\* escape or 'q' with the dropdown closed, or with no file at all
KeyQuit ==
  /\ running
  /\ (AppHandlesKey /\ ~showDropdown) \/ parsedFiles = <<>>
  /\ running' = FALSE
  /\ UNCHANGED <<storeVars, dropdownVars, effectPending, apc, cached, envVars, diskVars>>
  /\ AppFrame

\* an arrow key with the dropdown closed
KeyArrow(key) ==
  /\ AppHandlesKey /\ ~showDropdown
  /\ IF mode = Mode.FILE_NAVIGATION THEN
       IF key = "up" THEN FileMove(-1)
       ELSE IF key = "down" THEN FileMove(1)
       ELSE UNCHANGED <<currentFileIndex, currentHunkIndex>>
     ELSE IF mode = Mode.HUNK_NAVIGATION THEN
       IF key = "up" THEN HunkMove(-1)
       ELSE IF key = "down" THEN HunkMove(1)
       ELSE IF key = "left" THEN FileMove(-1)
       ELSE FileMove(1)
     ELSE
       IF key = "left" THEN LinearMove(-1)
       ELSE IF key = "right" THEN LinearMove(1)
       ELSE UNCHANGED <<currentFileIndex, currentHunkIndex>>
  /\ UNCHANGED <<mode, storedAnalysis, isAnalyzing, dropdownVars, runVars, envVars, diskVars>>
  /\ AppFrame

KeyUp == KeyArrow("up")
KeyDown == KeyArrow("down")
KeyLeft == KeyArrow("left")
KeyRight == KeyArrow("right")

\* a key with the dropdown open: the App's handler returns at once (escape
\* closes the dropdown), the Dropdown handles up, down and return, and a
\* character goes to the search input, which narrows the matching options
KeyInDropdown(key) ==
  /\ AppHandlesKey /\ showDropdown
  /\ IF key = "escape" THEN
       DropdownClosed /\ UNCHANGED <<currentFileIndex, currentHunkIndex>>
     ELSE IF key = "up" THEN
       move(-1) /\ UNCHANGED <<showDropdown, searchMatches, currentFileIndex, currentHunkIndex>>
     ELSE IF key = "down" THEN
       move(1) /\ UNCHANGED <<showDropdown, searchMatches, currentFileIndex, currentHunkIndex>>
     ELSE IF key = "return" THEN
       IF selected < Cardinality(searchMatches)
         THEN handleFileSelect(NthMatch(selected))
         ELSE UNCHANGED <<dropdownVars, currentFileIndex, currentHunkIndex>>
     ELSE IF key = "m" THEN
       /\ searchMatches' \in SUBSET searchMatches
       /\ selected' = 0
       /\ offset' = 0
       /\ UNCHANGED <<showDropdown, currentFileIndex, currentHunkIndex>>
     ELSE UNCHANGED <<dropdownVars, currentFileIndex, currentHunkIndex>>
  /\ UNCHANGED <<mode, storedAnalysis, isAnalyzing, runVars, envVars, diskVars>>
  /\ AppFrame

DropdownKeys == {"escape", "up", "down", "left", "right", "return", "m"}

DropdownKey == \E key \in DropdownKeys : KeyInDropdown(key)

\* the mouse over a visible option (with enableHover), and a click on it
DropdownMouse ==
  /\ AppHandlesKey /\ showDropdown
  /\ \E globalIndex \in offset..(offset + itemsPerPage - 1) :
       /\ globalIndex < Cardinality(searchMatches)
       /\ \/ /\ mode # Mode.FILE_NAVIGATION
             /\ selected' = globalIndex
             /\ UNCHANGED <<showDropdown, offset, searchMatches, currentFileIndex, currentHunkIndex>>
          \/ handleFileSelect(NthMatch(globalIndex))
  /\ UNCHANGED <<mode, storedAnalysis, isAnalyzing, runVars, envVars, diskVars>>
  /\ AppFrame

\* ------------------------------------------------- the App: runAnalysis
\* what the analyzer may return for the files of the diff: nothing (also
\* when it fails), or segments of some file of the diff
AnalyzerSegments ==
  {<<>>} \cup
  {segs \in {<<MkSegment("a.ts", 20, 21)>>,
             <<MkSegment("a.ts", 25, 25), MkSegment("a.ts", 20, 21)>>,
             <<MkSegment("b.ts", 1, 1), MkSegment("b.ts", 2, 2)>>} :
     \E i \in 1..Len(parsedFiles) : getFileName(parsedFiles[i]) = segs[1].file}

\* the files parsed from a diff text: a created file, or a deleted file
FilesOfDiff(text) == IF text = "d1" THEN <<LibraryFile(2, 0)>> ELSE <<LibraryFile(3, 0)>>

\* a run that never finds the repository root and the commit key
CacheUsableNever == FALSE

CacheUsable == repoDir # "" /\ commitKey # ""

\* the effect of AppWithWatch on [mode, gitDiff, filteredFiles]: runAnalysis
\* up to its await, or to its end
RunAnalysis ==
  /\ running /\ effectPending
  /\ effectPending' = FALSE
  /\ IF mode # Mode.INTELLIGENT \/ gitDiff = "" \/ parsedFiles = <<>> \/ storedAnalysis # <<>> THEN
       UNCHANGED <<storedAnalysis, isAnalyzing, apc, cached>>
     ELSE
       LET diffSha == diffShaOf(selectedModel, gitDiff)
           found == IF CacheUsable
                      THEN loadCachedAnalysis(diffIndex, analysisFiles, repoDir, commitKey, diffSha)
                      ELSE <<>>
       IN /\ cached' = found
          /\ IF found # <<>> THEN
               /\ storedAnalysis' = found
               /\ isAnalyzing' = FALSE
               /\ apc' = "idle"
             ELSE
               /\ isAnalyzing' = TRUE
               /\ apc' = "analyzing"
               /\ UNCHANGED storedAnalysis
  /\ UNCHANGED <<mode, currentFileIndex, currentHunkIndex, dropdownVars, running, envVars, diskVars>>
  /\ AppFrame

\* analyzeDiff resolves; the result is saved and stored
AnalyzeDone ==
  /\ running /\ apc = "analyzing"
  /\ \E segs \in AnalyzerSegments :
       LET analysis == AnalysisOf(selectedModel, gitDiff, segs)
           diffSha == diffShaOf(selectedModel, gitDiff)
       IN /\ IF CacheUsable THEN
               /\ diffIndex' = [diffIndex EXCEPT ![<<repoDir, commitKey>>] = diffSha]
               /\ analysisFiles' = [analysisFiles EXCEPT ![diffSha] = <<analysis>>]
               /\ saved' = saved \cup {<<repoDir, commitKey, diffSha>>}
             ELSE UNCHANGED diskVars
          /\ storedAnalysis' = <<analysis>>
  /\ isAnalyzing' = FALSE
  /\ apc' = "idle"
  /\ UNCHANGED <<mode, currentFileIndex, currentHunkIndex, dropdownVars,
                 running, effectPending, cached, envVars>>
  /\ AppFrame

\* analyzeDiff resolves and saveAnalysisCache throws, before the analysis
\* file is written or after it, before the index is: runAnalysis ends there
AnalyzeDoneSaveThrows ==
  /\ running /\ apc = "analyzing" /\ CacheUsable
  /\ \E segs \in AnalyzerSegments :
       \/ UNCHANGED analysisFiles
       \/ analysisFiles' = [analysisFiles EXCEPT ![diffShaOf(selectedModel, gitDiff)] =
                              <<AnalysisOf(selectedModel, gitDiff, segs)>>]
  /\ apc' = "failed"
  /\ UNCHANGED <<storeVars, dropdownVars, running, effectPending, cached, envVars, diffIndex, saved>>
  /\ AppFrame

\* a new run of the program on a diff, after the last one has ended: the
\* store starts from its initial state and the persisted mode
Start ==
  /\ running' = TRUE
  /\ selectedModel' \in Models
  /\ gitDiff' \in Diffs
  /\ repoDir' \in Repos \cup {""}
  /\ commitKey' \in Commits \cup {""}
  /\ parsedFiles' = FilesOfDiff(gitDiff')
  /\ currentFileIndex' = 0
  /\ currentHunkIndex' = 0
  /\ storedAnalysis' = <<>>
  /\ isAnalyzing' = FALSE
  /\ effectPending' = TRUE
  /\ apc' = "idle"
  /\ cached' = <<>>
  /\ UNCHANGED <<mode, dropdownVars, diskVars, intelligentAnalysis, tpc, syntheticHunks,
                 transformedFiles, diffVars, simVars, linVars>>

\* ------------------------------------------------- navigation: the machine
\* the App after fetchDiff, with any persisted mode and an empty cache
InitNav ==
  /\ parsedFiles \in FileLists(0)
  /\ intelligentAnalysis = MkAnalysis(<<>>)
  /\ tpc = "idle"
  /\ syntheticHunks = <<>>
  /\ transformedFiles = <<>>
  /\ mode \in {Mode.FILE_NAVIGATION, Mode.HUNK_NAVIGATION, Mode.HUNK_ONLY, Mode.INTELLIGENT}
  /\ currentFileIndex = 0
  /\ currentHunkIndex = 0
  /\ storedAnalysis = <<>>
  /\ isAnalyzing = FALSE
  /\ showDropdown = FALSE
  /\ selected = 0
  /\ offset = 0
  /\ searchMatches = {}
  /\ running = TRUE
  /\ effectPending = TRUE
  /\ apc = "idle"
  /\ cached = <<>>
  /\ selectedModel = "claude"
  /\ gitDiff = "d1"
  /\ repoDir = "/r"
  /\ commitKey = "c1"
  /\ diffIndex = EmptyIndex
  /\ analysisFiles = NoFiles
  /\ saved = {}
  /\ DiffIdle /\ SimIdle /\ LinIdle

NextNav ==
  \/ KeyM
  \/ OpenDropdown
  \/ KeyQuit
  \/ KeyUp
  \/ KeyDown
  \/ KeyLeft
  \/ KeyRight
  \/ DropdownKey
  \/ DropdownMouse
  \/ RunAnalysis
  \/ AnalyzeDone
  \/ AnalyzeDoneSaveThrows

SpecNav == InitNav /\ [][NextNav]_vars

\* ------------------------------------------------------ cache: the machine
\* a result written by another version of the program
LegacyResult(version) == [hunks |-> <<>>, version |-> version, origin |-> <<"claude", "d1">>]

\* the disk before the first run: empty, or an entry of another version
InitialDisks ==
  {[index |-> EmptyIndex, files |-> NoFiles]} \cup
  {[index |-> [EmptyIndex EXCEPT ![<<"/r", "c1">>] = diffShaOf("claude", "d1")],
    files |-> [NoFiles EXCEPT ![diffShaOf("claude", "d1")] = <<LegacyResult(v)>>]] :
     v \in {"v1", Undefined}}

\* the program not yet run, INTELLIGENT being the persisted mode
InitCache ==
  /\ \E disk \in InitialDisks :
       /\ diffIndex = disk.index
       /\ analysisFiles = disk.files
  /\ saved = {}
  /\ mode = Mode.INTELLIGENT
  /\ currentFileIndex = 0
  /\ currentHunkIndex = 0
  /\ storedAnalysis = <<>>
  /\ isAnalyzing = FALSE
  /\ showDropdown = FALSE
  /\ selected = 0
  /\ offset = 0
  /\ searchMatches = {}
  /\ running = FALSE
  /\ effectPending = FALSE
  /\ apc = "idle"
  /\ cached = <<>>
  /\ selectedModel = "claude"
  /\ gitDiff = ""
  /\ repoDir = ""
  /\ commitKey = ""
  /\ ResegIdle /\ DiffIdle /\ SimIdle /\ LinIdle

NextCache ==
  \/ Start
  \/ RunAnalysis
  \/ AnalyzeDone
  \/ AnalyzeDoneSaveThrows
  \/ KeyQuit

SpecCache == InitCache /\ [][NextCache]_vars

\* a run of the program that begins when the last one has ended
Restart == ~running /\ Start

NextCacheLive ==
  \/ Restart
  \/ RunAnalysis
  \/ AnalyzeDone
  \/ AnalyzeDoneSaveThrows
  \/ KeyQuit

\* the scheduled effect runs, and the awaited analyzeDiff settles (it catches
\* every error of the analyzer), after which the save succeeds or throws
SpecCacheLive ==
  /\ InitCache
  /\ [][NextCacheLive]_vars
  /\ WF_vars(RunAnalysis)
  /\ WF_vars(AnalyzeDone \/ AnalyzeDoneSaveThrows)

\* ------------------------------------------------ resegmenter: the claims
\* what the claims speak of: the kind of a line, the lines of a slice, the
\* old/new number a walk from the hunk header gives the k-th line
IsAdd(line) == lineType(line) = "+"
IsRemove(line) == lineType(line) = "-"
IsContext(line) == ~IsAdd(line) /\ ~IsRemove(line)

CountOf(lines, P(_)) == Cardinality({i \in 1..Len(lines) : P(lines[i])})

OldNumberAt(h, k) ==
  h.oldStart + Cardinality({i \in 1..(k - 1) : ~IsAdd(h.lines[i])})
NewNumberAt(h, k) ==
  h.newStart + Cardinality({i \in 1..(k - 1) : ~IsRemove(h.lines[i])})

\* s.lines is the slice of h.lines that starts at index k
IsSliceAt(s, h, k) ==
  /\ Len(s.lines) >= 1
  /\ k >= 1 /\ k + Len(s.lines) - 1 <= Len(h.lines)
  /\ s.lines = SubSeq(h.lines, k, k + Len(s.lines) - 1)

Done == tpc = "done"
Named == NamedFiles(parsedFiles)
\* the segments of the analysis that name the i-th named file
SegsNaming(i) == {j \in 1..Len(intelligentAnalysis.hunks) :
                    intelligentAnalysis.hunks[j].file = getFileName(Named[i])}
\* a segment misses a hunk: it lies wholly before or wholly after the
\* declared new-file range, or it contains no new-file number of a line
Misses(seg, h) ==
  \/ seg.lineEnd < h.newStart
  \/ seg.lineStart > h.newStart + h.newLines - 1
  \/ \A k \in 1..Len(h.lines) :
       IsRemove(h.lines[k]) \/ NewNumberAt(h, k) \notin seg.lineStart..seg.lineEnd

C1Hunk(k) == MkHunk(10, 20, <<" ", "-", "+", " ">>, k)
C1Input ==
  /\ \E k \in DeclaredSkew : parsedFiles = <<MkFile("a.ts", "a.ts", <<C1Hunk(k)>>)>>
  /\ intelligentAnalysis = MkAnalysis(<<MkSegment("a.ts", 20, 21)>>)

\* C1 as stated: the hunk -10 +20 [" a","-b","+c"," d"] with the segment
\* 20..21 yields one synthetic hunk at newStart 20 with the lines
\* [" a","+c"], the remove line not being captured.
C1_AsStated ==
  (Done /\ C1Input) =>
    /\ Len(transformedFiles) = 1
    /\ Len(transformedFiles[1].hunks) = 1
    /\ transformedFiles[1].hunks[1].newStart = 20
    /\ transformedFiles[1].hunks[1].lines = <<<<" ", "a">>, <<"+", "c">>>>

\* C1 amended: the same input yields one synthetic hunk at newStart 20 with
\* the lines [" a","-b","+c"]: the remove line follows the first in-range
\* line, so it is captured; the trailing context line is not.
C1_Amended ==
  (Done /\ C1Input) =>
    /\ Len(transformedFiles) = 1
    /\ Len(transformedFiles[1].hunks) = 1
    /\ transformedFiles[1].hunks[1].newStart = 20
    /\ transformedFiles[1].hunks[1].lines = <<<<" ", "a">>, <<"-", "b">>, <<"+", "c">>>>

C1_Witness == Done /\ C1Input /\ Len(syntheticHunks[1]) = 1

\* C2: a file whose segments are missing, overlap no hunk or capture nothing
\* keeps exactly its original hunk list, and an output hunk list is empty
\* only if the input hunk list was empty.
C2_FallbackToOriginal ==
  Done =>
    /\ Len(transformedFiles) = Len(Named)
    /\ \A i \in 1..Len(Named) :
         /\ ( \/ intelligentAnalysis.hunks = <<>>
              \/ SegsNaming(i) = {}
              \/ \A j \in SegsNaming(i) : \A n \in 1..Len(Named[i].hunks) :
                    Misses(intelligentAnalysis.hunks[j], Named[i].hunks[n])
              \/ syntheticHunks[i] = <<>> )
            => transformedFiles[i].hunks = Named[i].hunks
         /\ transformedFiles[i].hunks = <<>> => Named[i].hunks = <<>>

\* a file with a segment inside a hunk's declared range that captured nothing
C2_Witness ==
  /\ Done
  /\ \E i \in 1..Len(Named) :
       /\ \E j \in SegsNaming(i) : \E n \in 1..Len(Named[i].hunks) :
            ~Misses(intelligentAnalysis.hunks[j], Named[i].hunks[n])
       /\ syntheticHunks[i] = <<>>
       /\ transformedFiles[i].hunks = Named[i].hunks
       /\ Named[i].hunks # <<>>

\* C3: every synthetic hunk starts at the old and the new number of its
\* first captured line, counted from the header of the hunk it was cut from.
C3_StartsAtFirstCaptured ==
  Done =>
    \A i \in 1..Len(Named) : \A j \in 1..Len(syntheticHunks[i]) :
      \E n \in 1..Len(Named[i].hunks) : \E k \in 1..Len(Named[i].hunks[n].lines) :
        /\ IsSliceAt(syntheticHunks[i][j], Named[i].hunks[n], k)
        /\ syntheticHunks[i][j].oldStart = OldNumberAt(Named[i].hunks[n], k)
        /\ syntheticHunks[i][j].newStart = NewNumberAt(Named[i].hunks[n], k)

\* C4: the lines of every synthetic hunk are a gap-free slice of the lines
\* of one original hunk of the same file.
C4_ContiguousSlice ==
  Done =>
    \A i \in 1..Len(Named) : \A j \in 1..Len(syntheticHunks[i]) :
      \E n \in 1..Len(Named[i].hunks) : \E k \in 1..Len(Named[i].hunks[n].lines) :
        IsSliceAt(syntheticHunks[i][j], Named[i].hunks[n], k)

\* C5: a synthetic hunk's newLines is its adds plus its context lines and
\* its oldLines is its removes plus its context lines.
C5_CountsRecomputed ==
  Done =>
    \A i \in 1..Len(Named) : \A j \in 1..Len(syntheticHunks[i]) :
      LET s == syntheticHunks[i][j] IN
      /\ s.newLines = CountOf(s.lines, IsAdd) + CountOf(s.lines, IsContext)
      /\ s.oldLines = CountOf(s.lines, IsRemove) + CountOf(s.lines, IsContext)

\* a synthetic hunk of all three kinds cut from a hunk whose header counts
\* differ from the recomputed ones
C5_Witness ==
  /\ Done
  /\ \E i \in 1..Len(Named) : \E j \in 1..Len(syntheticHunks[i]) :
       LET s == syntheticHunks[i][j] IN
       /\ transformedFiles[i].hunks = syntheticHunks[i]
       /\ CountOf(s.lines, IsAdd) >= 1 /\ CountOf(s.lines, IsRemove) >= 1
       /\ CountOf(s.lines, IsContext) >= 1
       /\ \A n \in 1..Len(Named[i].hunks) :
            s.newLines # Named[i].hunks[n].newLines /\ s.oldLines # Named[i].hunks[n].oldLines

CLASSIFICATION_PRIORITY ==
  [breaking |-> 0, feature |-> 1, fix |-> 2, refactor |-> 3,
   test |-> 4, docs |-> 5, style |-> 6, unknown |-> 7]

\* intelligentAnalysis.hunks.find(h => h.file === fileName &&
\*   hunkStart >= h.lineStart && hunkStart <= h.lineEnd): <<h>> or <<>>
hunkAnalysisOf(analysis, fileName, currentHunk) ==
  LET found == SelectSeq(analysis.hunks,
                         LAMBDA h : /\ h.file = fileName
                                    /\ currentHunk.newStart >= h.lineStart
                                    /\ currentHunk.newStart <= h.lineEnd)
  IN IF found = <<>> THEN <<>> ELSE <<Head(found)>>

\* the hunk analysis shown with the j-th hunk of the i-th displayed file
ShownAnalysis(i, j) ==
  hunkAnalysisOf(intelligentAnalysis, getFileName(transformedFiles[i]), transformedFiles[i].hunks[j])
\* the positions of the displayed hunks, and the order they are stepped through
Positions ==
  UNION {{<<i, j>> : j \in 1..Len(transformedFiles[i].hunks)} : i \in 1..Len(transformedFiles)}
StepsBefore(p, q) == p[1] < q[1] \/ (p[1] = q[1] /\ p[2] < q[2])

\* C19: in INTELLIGENT mode the hunks are stepped through in the order of
\* their classification: every breaking hunk before every feature hunk,
\* before every fix hunk, and so on down the priority.
C19_SteppedByImportance ==
  Done =>
    \A p, q \in Positions :
      (StepsBefore(p, q) /\ ShownAnalysis(p[1], p[2]) # <<>> /\ ShownAnalysis(q[1], q[2]) # <<>>) =>
        CLASSIFICATION_PRIORITY[ShownAnalysis(p[1], p[2])[1].classification]
          <= CLASSIFICATION_PRIORITY[ShownAnalysis(q[1], q[2])[1].classification]

\* a segment that names no file of the diff, and an inverted segment
Absent(seg) == \A i \in 1..Len(parsedFiles) : getFileName(parsedFiles[i]) # seg.file
Inverted(seg) == seg.lineEnd < seg.lineStart
\* the analysis without its absent and inverted segments
Cleaned(analysis) ==
  [analysis EXCEPT !.hunks = SelectSeq(@, LAMBDA seg : ~Absent(seg) /\ ~Inverted(seg))]
\* both bounds of the segment lie inside the declared new-file range of h
BoundsInside(seg, h) ==
  {seg.lineStart, seg.lineEnd} \subseteq h.newStart..(h.newStart + h.newLines - 1)

\* C17: segments that name a file absent from the diff and segments with
\* lineEnd < lineStart contribute nothing: the output is the output for the
\* analysis without them, and an inverted segment yields no synthetic hunk
\* even with both bounds inside a hunk's new-file range.
C17_AbsentAndInvertedIgnored ==
  Done =>
    /\ transformedFiles = transformFilesWithIntelligentHunks(parsedFiles, Cleaned(intelligentAnalysis))
    /\ \A i \in 1..Len(Named) :
         syntheticHunks[i] = SyntheticHunksOf(Named[i], Cleaned(intelligentAnalysis))

\* an analysis of an absent-file segment and an inverted segment whose
\* bounds lie inside a hunk of the file it names
C17_Witness ==
  /\ Done
  /\ \E j1, j2 \in 1..Len(intelligentAnalysis.hunks) :
       /\ Absent(intelligentAnalysis.hunks[j1])
       /\ Inverted(intelligentAnalysis.hunks[j2])
       /\ \E i \in 1..Len(Named) : \E n \in 1..Len(Named[i].hunks) :
            /\ intelligentAnalysis.hunks[j2].file = getFileName(Named[i])
            /\ BoundsInside(intelligentAnalysis.hunks[j2], Named[i].hunks[n])
            /\ transformedFiles[i].hunks = Named[i].hunks

\* the walk's view of the k-th line of h under the segment seg: the running
\* new-line counter (the header's newStart plus the add and context lines
\* passed), whether capturing began before the line, whether the walk is left
\* at the line
AddOrContext(line) == lineType(line) \in {"+", " "}
RunningNew(h, k) ==
  h.newStart + Cardinality({i \in 1..(k - 1) : AddOrContext(h.lines[i])})
InRangeAt(h, seg, k) ==
  AddOrContext(h.lines[k]) /\ RunningNew(h, k) \in seg.lineStart..seg.lineEnd
BeganBefore(h, seg, k) == \E j \in 1..(k - 1) : InRangeAt(h, seg, j)
StopsAt(h, seg, k) ==
  AddOrContext(h.lines[k]) /\ BeganBefore(h, seg, k) /\ RunningNew(h, k) > seg.lineEnd
Reached(h, seg, k) == \A j \in 1..k : ~StopsAt(h, seg, j)
CapturedAt(h, seg, k) ==
  /\ Reached(h, seg, k)
  /\ IF IsRemove(h.lines[k]) THEN BeganBefore(h, seg, k) ELSE InRangeAt(h, seg, k)

RECURSIVE CapturedFrom(_, _, _)
CapturedFrom(h, seg, k) ==
  IF k > Len(h.lines) THEN <<>>
  ELSE (IF CapturedAt(h, seg, k) THEN <<h.lines[k]>> ELSE <<>>) \o CapturedFrom(h, seg, k + 1)

\* the declared new-file range of h and the range of seg have a line in common
DeclaredOverlap(seg, h) ==
  \E n \in h.newStart..(h.newStart + h.newLines - 1) : n \in seg.lineStart..seg.lineEnd

LinesOfHunks(hunks) == [j \in 1..Len(hunks) |-> hunks[j].lines]

\* C21: in the walk of a hunk a remove line is captured iff capturing began
\* before it, an add or context line iff the running new-line counter is
\* within the segment, and nothing is captured from the first add or context
\* line on whose number exceeds lineEnd after capturing began: every
\* synthetic hunk holds exactly the lines so captured from one hunk for one
\* segment, and a file of one hunk with one segment that overlaps it yields
\* exactly that capture.
C21_WalkCaptureRule ==
  Done =>
    \A i \in 1..Len(Named) :
      /\ \A j \in 1..Len(syntheticHunks[i]) :
           \E s \in SegsNaming(i) : \E n \in 1..Len(Named[i].hunks) :
             syntheticHunks[i][j].lines =
               CapturedFrom(Named[i].hunks[n], intelligentAnalysis.hunks[s], 1)
      /\ \A s \in SegsNaming(i) :
           ( /\ SegsNaming(i) = {s}
             /\ Len(Named[i].hunks) = 1
             /\ DeclaredOverlap(intelligentAnalysis.hunks[s], Named[i].hunks[1]) )
           => LET c == CapturedFrom(Named[i].hunks[1], intelligentAnalysis.hunks[s], 1)
              IN LinesOfHunks(syntheticHunks[i]) = IF c = <<>> THEN <<>> ELSE <<c>>

\* a walk that passed a remove line before capturing began, captured an
\* in-range line and the remove line right after it, and was left at a later
\* add or context line beyond lineEnd
C21_Witness ==
  /\ Done
  /\ Len(Named) = 1 /\ Len(Named[1].hunks) = 1 /\ Len(intelligentAnalysis.hunks) = 1
  /\ LET h == Named[1].hunks[1]
         seg == intelligentAnalysis.hunks[1]
     IN /\ Len(h.lines) = 4
        /\ IsRemove(h.lines[1]) /\ ~CapturedAt(h, seg, 1)
        /\ InRangeAt(h, seg, 2)
        /\ IsRemove(h.lines[3]) /\ CapturedAt(h, seg, 3)
        /\ StopsAt(h, seg, 4)
        /\ LinesOfHunks(syntheticHunks[1]) = <<SubSeq(h.lines, 2, 3)>>
        /\ transformedFiles[1].hunks = syntheticHunks[1]

\* the bounds of the segment and of the declared new-file range of h overlap
RangeOverlap(seg, h) ==
  ~(seg.lineEnd < h.newStart \/ seg.lineStart > h.newStart + h.newLines - 1)
\* the first hunk in file order whose declared range overlaps the segment
FirstOverlapping(hunks, seg) ==
  {n \in 1..Len(hunks) : /\ RangeOverlap(seg, hunks[n])
                          /\ \A k \in 1..(n - 1) : ~RangeOverlap(seg, hunks[k])}
\* the walk's old-line counter at the k-th line of h
RunningOld(h, k) ==
  h.oldStart + Cardinality({i \in 1..(k - 1) : lineType(h.lines[i]) \in {"-", " "}})
\* the old-line counter at the first in-range line of h
OldAtFirstInRange(h, seg) ==
  LET first == CHOOSE k \in 1..Len(h.lines) :
                 InRangeAt(h, seg, k) /\ ~BeganBefore(h, seg, k)
  IN RunningOld(h, first)
\* what a segment takes from a hunk: the captured lines and where they start
TakenFrom(h, seg) ==
  LET c == CapturedFrom(h, seg, 1) IN
  IF c = <<>> THEN <<>> ELSE <<[lines |-> c, oldStart |-> OldAtFirstInRange(h, seg)]>>
\* what a segment yields for a file: what it takes from the first overlapping hunk
SegmentYield(file, seg) ==
  IF FirstOverlapping(file.hunks, seg) = {} THEN <<>>
  ELSE TakenFrom(file.hunks[CHOOSE n \in FirstOverlapping(file.hunks, seg) : TRUE], seg)
\* the segments (by index in the analysis) that yield something for the i-th file
Yielding(i) ==
  {s \in SegsNaming(i) : SegmentYield(Named[i], intelligentAnalysis.hunks[s]) # <<>>}
Injective(f) == \A a, b \in DOMAIN f : a # b => f[a] # f[b]
\* the yielding segments of the i-th file, each with what it yields
Yields(i) ==
  {y \in {<<s, SegmentYield(Named[i], intelligentAnalysis.hunks[s])>> : s \in SegsNaming(i)} :
     y[2] # <<>>}

\* C22: each segment yields at most one synthetic hunk, and that one is cut
\* from the first hunk in file order whose declared new-file range overlaps
\* the segment: the synthetic hunks of a file are, one for one, what its
\* segments take from their first overlapping hunk, and a segment whose
\* first overlapping hunk gives no captured line yields nothing, whatever
\* the later hunks hold.
C22_FirstOverlappingHunkOnly ==
  Done =>
    \A i \in 1..Len(Named) :
      LET yields == Yields(i) IN
      /\ Len(syntheticHunks[i]) = Cardinality(yields)
      /\ \E f \in [1..Len(syntheticHunks[i]) -> yields] :
           /\ Injective(f)
           /\ \A j \in 1..Len(syntheticHunks[i]) :
                <<[lines |-> syntheticHunks[i][j].lines,
                   oldStart |-> syntheticHunks[i][j].oldStart]>> = f[j][2]

\* a segment that overlaps two hunks, takes nothing from the first and would
\* take a line from the second: it yields no synthetic hunk
C22_Witness ==
  /\ Done
  /\ \E i \in 1..Len(Named) : \E s \in SegsNaming(i) :
       LET seg == intelligentAnalysis.hunks[s]
           hunks == Named[i].hunks
       IN /\ SegsNaming(i) = {s}
          /\ Len(hunks) = 2
          /\ RangeOverlap(seg, hunks[1]) /\ RangeOverlap(seg, hunks[2])
          /\ TakenFrom(hunks[1], seg) = <<>>
          /\ TakenFrom(hunks[2], seg) # <<>>
          /\ syntheticHunks[i] = <<>>
          /\ transformedFiles[i].hunks = hunks

\* a line with its marker read as the claim reads it: a marker that is none
\* of '+', '-', ' ' stands for the context marker
AsContext(line) ==
  IF lineType(line) \in {"+", "-", " "} THEN line ELSE <<" ">> \o Tail(line)
ReadAsContext(files) ==
  [i \in 1..Len(files) |->
     [files[i] EXCEPT !.hunks =
        [j \in 1..Len(files[i].hunks) |->
           [files[i].hunks[j] EXCEPT !.lines =
              [k \in 1..Len(files[i].hunks[j].lines) |-> AsContext(files[i].hunks[j].lines[k])]]]]]

\* C23: the segment walk treats a line whose first character is none of
\* '+', '-', ' ' as a context line (it advances both counters and is
\* captured when its new-line number is inside the segment): the output is,
\* marker for marker, the output for the same hunks with every such line
\* written as a context line.
C23_UnknownMarkerIsContext ==
  Done =>
    ReadAsContext(transformedFiles) =
      transformFilesWithIntelligentHunks(ReadAsContext(parsedFiles), intelligentAnalysis)

\* the analysis with its list rearranged by the permutation p
Perms(n) == {p \in [1..n -> 1..n] : Injective(p)}
Permuted(analysis, p) ==
  [analysis EXCEPT !.hunks = [k \in 1..Len(analysis.hunks) |-> analysis.hunks[p[k]]]]
\* the segment with index a comes before the one with index b in the use of
\* a file's segments: by lineStart, ties in the order of the analysis
UsedBefore(a, b) ==
  LET sa == intelligentAnalysis.hunks[a]
      sb == intelligentAnalysis.hunks[b]
  IN sa.lineStart < sb.lineStart \/ (sa.lineStart = sb.lineStart /\ a < b)
\* the synthetic hunks of every file are what its segments yield, in
\* ascending order of lineStart, ties in the order of the analysis; the
\* output keeps the order of the input files
OrderedByLineStart ==
  /\ \A i \in 1..Len(Named) :
       /\ \A j, k \in 1..Len(syntheticHunks[i]) :
            j < k => syntheticHunks[i][j].newStart <= syntheticHunks[i][k].newStart
       /\ \E f \in [1..Len(syntheticHunks[i]) -> Yields(i)] :
            /\ \A j, k \in 1..Len(syntheticHunks[i]) : j < k => UsedBefore(f[j][1], f[k][1])
            /\ \A j \in 1..Len(syntheticHunks[i]) :
                 /\ syntheticHunks[i][j].newStart = intelligentAnalysis.hunks[f[j][1]].lineStart
                 /\ <<[lines |-> syntheticHunks[i][j].lines,
                       oldStart |-> syntheticHunks[i][j].oldStart]>> = f[j][2]
  /\ [i \in 1..Len(transformedFiles) |-> getFileName(transformedFiles[i])]
       = [i \in 1..Len(Named) |-> getFileName(Named[i])]
\* the output for every rearrangement of the analysis list is the output
PermutationInvariant ==
  \A p \in Perms(Len(intelligentAnalysis.hunks)) :
    transformFilesWithIntelligentHunks(parsedFiles, Permuted(intelligentAnalysis, p))
      = transformedFiles
\* segments of one file with the same lineStart are the same segment
NoTies ==
  \A a, b \in 1..Len(intelligentAnalysis.hunks) :
    LET sa == intelligentAnalysis.hunks[a]
        sb == intelligentAnalysis.hunks[b]
    IN (sa.file = sb.file /\ sa.lineStart = sb.lineStart) => sa = sb

\* C24 as stated: the synthetic hunks of a file are in ascending order of
\* their segment's lineStart, ties in analysis order, the files keep their
\* order, and permuting the analysis list never changes the output.
C24_AsStated ==
  Done => (OrderedByLineStart /\ PermutationInvariant)

\* C24 amended: the synthetic hunks of a file are in ascending order of
\* their segment's lineStart, ties in analysis order, the files keep their
\* order, and permuting the analysis list does not change the output when
\* no two different segments of a file have the same lineStart.
C24_Amended ==
  Done => (OrderedByLineStart /\ (NoTies => PermutationInvariant))

\* a file with two yielding segments that the analysis lists in descending
\* order of lineStart, its synthetic hunks in ascending order
C24_Witness ==
  /\ Done
  /\ NoTies
  /\ \E i \in 1..Len(Named) : \E a, b \in Yielding(i) :
       /\ a < b
       /\ intelligentAnalysis.hunks[a].lineStart > intelligentAnalysis.hunks[b].lineStart
       /\ Len(syntheticHunks[i]) = 2
       /\ syntheticHunks[i][1].newStart = intelligentAnalysis.hunks[b].lineStart
       /\ syntheticHunks[i][2].newStart = intelligentAnalysis.hunks[a].lineStart
       /\ transformedFiles[i].hunks = syntheticHunks[i]

\* the file with the header counts of every hunk declared as the lines count
WithCountedHeader(h) ==
  [h EXCEPT !.oldLines = CountOf(h.lines, IsRemove) + CountOf(h.lines, IsContext),
            !.newLines = CountOf(h.lines, IsAdd) + CountOf(h.lines, IsContext)]
WithCountedHeaders(file) ==
  [file EXCEPT !.hunks = [j \in 1..Len(file.hunks) |-> WithCountedHeader(file.hunks[j])]]

\* C25: the declared header counts do not bear on the resegmentation: the
\* synthetic hunks of every file are the synthetic hunks of the same file
\* with the same starts and lines and with the counts its lines give.
C25_DeclaredCountsAdvisory ==
  Done =>
    \A i \in 1..Len(Named) :
      syntheticHunks[i] = SyntheticHunksOf(WithCountedHeaders(Named[i]), intelligentAnalysis)

\* a hunk that only deletes, the remove lines at the head of a hunk, and
\* the hunks of a file that no yielding segment cut from
PureDeletion(h) == Len(h.lines) >= 1 /\ \A k \in 1..Len(h.lines) : IsRemove(h.lines[k])
LeadingRemove(h, k) == \A m \in 1..k : IsRemove(h.lines[m])
Selected(i) ==
  UNION {FirstOverlapping(Named[i].hunks, intelligentAnalysis.hunks[s]) : s \in Yielding(i)}
\* the j-th synthetic hunk of the i-th file is cut from its n-th hunk
CutFrom(i, j, n) ==
  \E s \in SegsNaming(i) :
    /\ n \in FirstOverlapping(Named[i].hunks, intelligentAnalysis.hunks[s])
    /\ <<[lines |-> syntheticHunks[i][j].lines, oldStart |-> syntheticHunks[i][j].oldStart]>>
         = TakenFrom(Named[i].hunks[n], intelligentAnalysis.hunks[s])
\* the hunks of the i-th file that its j-th synthetic hunk is cut from
Sources(i, j) == {n \in 1..Len(Named[i].hunks) : CutFrom(i, j, n)}
\* the j-th synthetic hunk of the i-th file has the k-th line of its n-th hunk
Holds(i, j, n, k) ==
  \E m \in 1..Len(syntheticHunks[i][j].lines) :
    syntheticHunks[i][j].lines[m] = Named[i].hunks[n].lines[k]
\* the hunk list of the i-th file is replaced by synthetic hunks
Replaced(i) == syntheticHunks[i] # <<>>

\* C29: the output hunk list of a file is either exactly its original list
\* or exactly its synthetic hunks; in the second case every output hunk is
\* cut from a hunk that a segment selected, begins with an add or context
\* line, and holds no remove line from the head of the hunk it is cut from,
\* so that unselected hunks, such leading remove lines and pure-deletion
\* hunks are absent from the output.
C29_AllOrNothing ==
  Done =>
    \A i \in 1..Len(Named) :
      /\ ~Replaced(i) => transformedFiles[i].hunks = Named[i].hunks
      /\ Replaced(i) =>
           /\ transformedFiles[i].hunks = syntheticHunks[i]
           /\ LET chosen == Selected(i) IN
              \A j \in 1..Len(syntheticHunks[i]) :
                LET sources == Sources(i, j) IN
                /\ sources \cap chosen # {}
                /\ AddOrContext(syntheticHunks[i][j].lines[1])
                /\ \A n \in sources :
                     /\ n \in chosen /\ ~PureDeletion(Named[i].hunks[n])
                     /\ \A k \in 1..Len(Named[i].hunks[n].lines) :
                          LeadingRemove(Named[i].hunks[n], k) => ~Holds(i, j, n, k)

\* a file shown by synthetic hunks alone that has a pure-deletion hunk, a
\* hunk no segment selected, and a selected hunk that begins with a remove
\* line
C29_Witness ==
  /\ Done
  /\ \E i \in 1..Len(Named) :
       /\ Replaced(i)
       /\ transformedFiles[i].hunks = syntheticHunks[i]
       /\ transformedFiles[i].hunks # Named[i].hunks
       /\ \E n \in 1..Len(Named[i].hunks) : PureDeletion(Named[i].hunks[n])
       /\ \E n \in 1..Len(Named[i].hunks) : n \notin Selected(i)
  /\ \E i \in 1..Len(Named) :
       /\ Replaced(i)
       /\ \E n \in Selected(i) : IsRemove(Named[i].hunks[n].lines[1])

\* the old-file lines of a hunk, and the hunks a synthetic hunk can have
\* been cut from: its lines are lines of the hunk and it starts in the
\* hunk's old-file range (the lines of a hunk differ in their text, and the
\* hunks of a file in their old-file range)
OldRange(h) == h.oldStart..(h.oldStart + Len(h.lines))
LineSet(h) == {h.lines[k] : k \in 1..Len(h.lines)}
FromHunk(i, j, n) ==
  /\ LineSet(syntheticHunks[i][j]) \subseteq LineSet(Named[i].hunks[n])
  /\ syntheticHunks[i][j].oldStart \in OldRange(Named[i].hunks[n])
\* a line of the n-th hunk of the i-th file is in two synthetic hunks
Duplicated(i, n) ==
  \E j, k \in 1..Len(syntheticHunks[i]) :
    /\ j # k
    /\ FromHunk(i, j, n) /\ FromHunk(i, k, n)
    /\ LineSet(syntheticHunks[i][j]) \cap LineSet(syntheticHunks[i][k]) # {}
\* the segments of the i-th file: none inverted, no two with a common line
DisjointSegments(i) ==
  /\ \A s \in SegsNaming(i) : ~Inverted(intelligentAnalysis.hunks[s])
  /\ \A s, t \in SegsNaming(i) :
       s # t => \/ intelligentAnalysis.hunks[s].lineEnd < intelligentAnalysis.hunks[t].lineStart
                \/ intelligentAnalysis.hunks[t].lineEnd < intelligentAnalysis.hunks[s].lineStart

\* C30: when the segments of a file have pairwise disjoint line ranges,
\* each with lineStart <= lineEnd, no line of an original hunk is in two
\* synthetic hunks of the file.
C30_DisjointSegmentsNoDuplicate ==
  Done =>
    \A i \in 1..Len(Named) :
      DisjointSegments(i) => \A n \in 1..Len(Named[i].hunks) : ~Duplicated(i, n)

\* two disjoint segments that both cut from one hunk, with a remove line
\* between their lines, and no line in both synthetic hunks
C30_Witness ==
  /\ Done
  /\ \E i \in 1..Len(Named) : \E n \in 1..Len(Named[i].hunks) :
       /\ DisjointSegments(i)
       /\ Len(syntheticHunks[i]) = 2
       /\ FromHunk(i, 1, n) /\ FromHunk(i, 2, n)
       /\ \E m \in 2..Len(syntheticHunks[i][1].lines) : IsRemove(syntheticHunks[i][1].lines[m])
       /\ ~Duplicated(i, n)
       /\ transformedFiles[i].hunks = syntheticHunks[i]

\* ------------------------------------------------ row builder: the claims
Rendered == dpc = "rendered"
Lines == processedLines(patch.lines)
LineCount == Len(patch.lines)

\* the pairs of the claim: the k-th line of a maximal run of removes s..m
\* with the k-th line of the maximal run of adds that starts at m + 1
ReferencePairs ==
  {<<r, a>> \in (1..LineCount) \X (1..LineCount) :
     \E s \in 1..r : \E m \in r..LineCount :
       /\ \A i \in s..m : Lines[i].type = "remove"
       /\ s = 1 \/ Lines[s - 1].type # "remove"
       /\ m < LineCount /\ Lines[m + 1].type = "add"
       /\ a = m + (r - s + 1)
       /\ \A i \in (m + 1)..a : Lines[i].type = "add"}

PairSet == {<<linePairs[k].remove, linePairs[k].add>> : k \in 1..Len(linePairs)}

\* C6: the pairs computed in formatDiff are exactly the positional pairs of
\* each maximal run of removes with the run of adds right after it; no line
\* is in two pairs; a hunk without a remove or without an add has no pair.
\* (Indices count from 1: the pairs {(0,2),(1,3)} of the spec are
\* {<<1,3>>, <<2,4>>} here.)
C6_PairsAreReference ==
  Rendered =>
    /\ PairSet = ReferencePairs
    /\ Cardinality(PairSet) = Len(linePairs)
    /\ \A k1, k2 \in 1..Len(linePairs) :
         k1 # k2 => {linePairs[k1].remove, linePairs[k1].add}
                      \cap {linePairs[k2].remove, linePairs[k2].add} = {}
    /\ ~shouldShowWordDiff(Lines) => linePairs = <<>>
    /\ patch.lines = PairExampleLines => PairSet = {<<1, 3>>, <<2, 4>>}

\* the hunk of the example, with its third add left unpaired
C6_Witness ==
  /\ Rendered
  /\ patch.lines = PairExampleLines
  /\ Len(linePairs) = 2
  /\ \A k \in 1..Len(linePairs) : linePairs[k].add # 5

\* the rows of diff that render line i
RowsOfLine(i) == {k \in 1..Len(diff) : diff[k].code.line = i}
WordDiffed(i) == \E k \in RowsOfLine(i) : diff[k].code.wordDiff
PairsOfLine(i) == {k \in 1..Len(linePairs) : linePairs[k].remove = i \/ linePairs[k].add = i}
Similar(p) ==
  ~shouldSkipWordDiff(calculateSimilarity(Lines[p.remove].code, Lines[p.add].code))

\* C7: a line is word-diffed exactly when it belongs to a pair of similarity
\* >= 0.5, both lines of a pair alike; a pair below the threshold still has
\* pairedWith set on both of its lines and is rendered plain.
C7_WordDiffIffSimilarPair ==
  Rendered =>
    /\ \A i \in 1..LineCount :
         WordDiffed(i) <=> \E k \in PairsOfLine(i) : Similar(linePairs[k])
    /\ \A k \in 1..Len(linePairs) :
         LET p == linePairs[k] IN
         /\ WordDiffed(p.remove) <=> WordDiffed(p.add)
         /\ ~Similar(p) =>
              /\ \E n \in RowsOfLine(p.remove) :
                   HasPairedWith(diff[n]) /\ diff[n].pairedWith = p.add /\ ~diff[n].code.wordDiff
              /\ \E n \in RowsOfLine(p.add) :
                   HasPairedWith(diff[n]) /\ diff[n].pairedWith = p.remove /\ ~diff[n].code.wordDiff

\* C8: the first line of the hunk carries the old number oldStart and the
\* new number newStart of the hunk header.
C8_SeededFromHeader ==
  Rendered =>
    \A k \in RowsOfLine(1) :
      /\ diff[k].oldLineNumber = toString(patch.oldStart)
      /\ diff[k].newLineNumber = toString(patch.newStart)

\* the lines before i that advance the old, and the new, counter
OldBefore(i) == Cardinality({j \in 1..(i - 1) : Lines[j].type # "add"})
NewBefore(i) == Cardinality({j \in 1..(i - 1) : Lines[j].type # "remove"})

\* C9: every line advances its counters by exactly one, so line i is
\* recorded with the old seed plus the context and remove lines before it
\* and the new seed plus the context and add lines before it.
C9_CountersAdvanceByOne ==
  Rendered =>
    \A i \in 1..LineCount : \A k \in RowsOfLine(i) :
      /\ diff[k].oldLineNumber = toString(OldSeed(patch.oldStart) + OldBefore(i))
      /\ diff[k].newLineNumber = toString(NewSeed(patch.oldStart) + NewBefore(i))

\* the rows of splitLines that show line i on the left, and on the right
LeftRows(i) == {k \in 1..Len(splitLines) : splitLines[k].left.code.line = i}
RightRows(i) == {k \in 1..Len(splitLines) : splitLines[k].right.code.line = i}
\* the line that fixes the position of a row: its remove, or its only line
RowLine(row) == IF row.left.type # "empty" THEN row.left.code.line ELSE row.right.code.line

\* C10: in split mode every line is in exactly one row, on its own side,
\* and the rows follow the order of the lines.
C10_SplitRowsCoverLines ==
  (Rendered /\ splitView) =>
    /\ \A i \in 1..LineCount :
         /\ Cardinality(LeftRows(i) \cup RightRows(i)) = 1
         /\ Lines[i].type = "remove" => RightRows(i) = {}
         /\ Lines[i].type = "add" => LeftRows(i) = {}
         /\ Lines[i].type = "nochange" => LeftRows(i) = RightRows(i)
    /\ \A k1, k2 \in 1..Len(splitLines) :
         k1 < k2 => RowLine(splitLines[k1]) < RowLine(splitLines[k2])

\* the rows of splitLines made of line l on the left and line r on the right
\* (0 for a blank side)
SplitRowsOf(l, r) ==
  {n \in 1..Len(splitLines) :
     splitLines[n].left.code.line = l /\ splitLines[n].right.code.line = r}
Blank(str) == \A c \in 1..Len(str) : str[c] = " "
BlankSide(side) == side.type = "empty" /\ side.code.text = <<>> /\ Blank(side.lineNumber)

\* C11: in split mode a pair is one row, the remove left and the add right;
\* an unpaired remove is a row with a blank right side, an unpaired add a row
\* with a blank left side; a context line is a row with the same content on
\* both sides, its old number left and its new number right.
C11_SplitRowShapes ==
  (Rendered /\ splitView) =>
    /\ \A k \in 1..Len(linePairs) :
         \E n \in SplitRowsOf(linePairs[k].remove, linePairs[k].add) :
           splitLines[n].left.type = "remove" /\ splitLines[n].right.type = "add"
    /\ \A i \in 1..LineCount :
         PairsOfLine(i) = {} =>
           /\ Lines[i].type = "remove" =>
                \E n \in SplitRowsOf(i, 0) :
                  splitLines[n].left.type = "remove" /\ BlankSide(splitLines[n].right)
           /\ Lines[i].type = "add" =>
                \E n \in SplitRowsOf(0, i) :
                  splitLines[n].right.type = "add" /\ BlankSide(splitLines[n].left)
           /\ Lines[i].type = "nochange" =>
                \E n \in SplitRowsOf(i, i) : \E k \in RowsOfLine(i) :
                  /\ splitLines[n].left.code = splitLines[n].right.code
                  /\ splitLines[n].left.code.text = Lines[i].code
                  /\ splitLines[n].left.lineNumber
                       = padStart(diff[k].oldLineNumber, leftMaxWidth(patch))
                  /\ splitLines[n].right.lineNumber
                       = padStart(diff[k].newLineNumber, rightMaxWidth(patch))

\* C12: in unified mode the line-number column of a row shows the new-file
\* number of an add or context line and is blank for every remove line.
C12_UnifiedNumberColumn ==
  (Rendered /\ ~splitView) =>
    \A k \in 1..Len(paddedDiff) :
      IF paddedDiff[k].type = "remove"
        THEN Blank(paddedDiff[k].lineNumber)
        ELSE paddedDiff[k].lineNumber
               = padStart(paddedDiff[k].newLineNumber,
                          Max(leftMaxWidth(patch), rightMaxWidth(patch)))

Changed(k) == diff[k].type = "add" \/ diff[k].type = "remove"

\* C13: within one hunk a row has a snippetId iff its line is an add or a
\* remove line; the lines of one maximal run of add/remove lines share one
\* id, and two runs separated by a context line have different ids.
C13_SnippetIdPerRun ==
  Rendered =>
    /\ \A k \in 1..Len(diff) : diff[k].snippetId # Null <=> Changed(k)
    /\ \A k1, k2 \in 1..Len(diff) :
         (Changed(k1) /\ Changed(k2) /\ diff[k1].code.line <= diff[k2].code.line) =>
           ( diff[k1].snippetId = diff[k2].snippetId
               <=> \A i \in diff[k1].code.line..diff[k2].code.line : Lines[i].type # "nochange" )

\* a run of two lines with one id, and a later run with another id
C13_Witness ==
  /\ Rendered
  /\ \E k1, k2, k3, k4 \in 1..Len(diff) :
       /\ k1 < k2 /\ k2 < k3 /\ k3 < k4
       /\ Changed(k1) /\ Changed(k2) /\ ~Changed(k3) /\ Changed(k4)
       /\ diff[k1].snippetId = diff[k2].snippetId
       /\ diff[k3].snippetId = Null
       /\ diff[k4].snippetId # Null /\ diff[k4].snippetId # diff[k1].snippetId

\* ------------------------------------------------- similarity: the claims
\* the unit-cost edit distance, by the recursion on the heads of the strings
RECURSIVE EditDistance(_, _)
EditDistance(a, b) ==
  IF a = <<>> THEN Len(b)
  ELSE IF b = <<>> THEN Len(a)
  ELSE IF Head(a) = Head(b) THEN EditDistance(Tail(a), Tail(b))
  ELSE 1 + Min(EditDistance(Tail(a), Tail(b)),
               Min(EditDistance(Tail(a), b), EditDistance(a, Tail(b))))

SimDone == simpc = "done"
\* the fraction f is the number n / d
FractionIs(f, n, d) == f.den > 0 /\ d > 0 /\ f.num * d = n * f.den

\* C14: calculateSimilarity(a, b) = (maxLen - editDistance(a, b)) / maxLen
\* with maxLen the longer length, and 1 when both strings are empty; so it is
\* 1 on equal strings, symmetric and within [0, 1]; similarity("cat","bat")
\* is 2/3 and similarity("cat","xyz") is 0.
C14_SimilarityIsNormalisedDistance ==
  SimDone =>
    LET a == simArgs[1]
        b == simArgs[2]
        maxLen == Max(Len(a), Len(b))
    IN
    /\ IF maxLen = 0 THEN FractionIs(simResult.ab, 1, 1)
       ELSE FractionIs(simResult.ab, maxLen - EditDistance(a, b), maxLen)
    /\ FractionIs(simResult.aa, 1, 1)
    /\ simResult.ab.num * simResult.ba.den = simResult.ba.num * simResult.ab.den
    /\ 0 <= simResult.ab.num /\ simResult.ab.num <= simResult.ab.den
    /\ (a = <<"c", "a", "t">> /\ b = <<"b", "a", "t">>) => 3 * simResult.ab.num = 2 * simResult.ab.den
    /\ (a = <<"c", "a", "t">> /\ b = <<"x", "y", "z">>) => simResult.ab.num = 0

\* the call on "cat" and "bat"
C14_Witness ==
  /\ SimDone
  /\ simArgs = <<<<"c", "a", "t">>, <<"b", "a", "t">>>>
  /\ simResult.ab = [num |-> 2, den |-> 3]

\* ------------------------------------------------ linear index: the claims
LinTotal == getTotalHunks(linFiles)
HunkCountAt(fileIndex) == Len(linFiles[fileIndex + 1].hunks)
\* (fileIndex, hunkIndex) names a hunk of linFiles
ValidCoord(c) ==
  /\ c.fileIndex \in 0..(Len(linFiles) - 1)
  /\ c.hunkIndex \in 0..(HunkCountAt(c.fileIndex) - 1)
\* the files that have a hunk
NonEmptyFiles == {i \in 0..(Len(linFiles) - 1) : HunkCountAt(i) > 0}
FirstHunkCoord ==
  LET f == CHOOSE i \in NonEmptyFiles : \A j \in NonEmptyFiles : i <= j
  IN [fileIndex |-> f, hunkIndex |-> 0]
LastHunkCoord ==
  LET f == CHOOSE i \in NonEmptyFiles : \A j \in NonEmptyFiles : i >= j
  IN [fileIndex |-> f, hunkIndex |-> HunkCountAt(f) - 1]

\* C15: for every file list, files without hunks included, and every n in
\* [0, totalHunks - 1], linearToFileHunk(n) is a valid coordinate and
\* fileHunkToLinear of it is n.
C15_LinearRoundTrip ==
  (lpc = "back" /\ linIndex \in 0..(LinTotal - 1)) =>
    /\ ValidCoord(linCoord)
    /\ linBack = linIndex

\* the last hunk of the files with the hunk counts [0, 3, 0, 2]
C15_Witness ==
  /\ lpc = "back"
  /\ Len(linFiles) = 4
  /\ HunkCountAt(0) = 0 /\ HunkCountAt(1) = 3 /\ HunkCountAt(2) = 0 /\ HunkCountAt(3) = 2
  /\ linIndex = 4
  /\ linCoord = [fileIndex |-> 3, hunkIndex |-> 1]
  /\ linBack = 4

\* C16: with at least one hunk, linearToFileHunk(n) is the coordinate of the
\* first hunk for n < 0 and of the last hunk for n >= totalHunks, and its
\* hunkIndex is never negative.
C16_ClampsOutOfRange ==
  (lpc # "call" /\ lpc # "idle" /\ LinTotal >= 1) =>
    /\ linIndex < 0 => linCoord = FirstHunkCoord
    /\ linIndex >= LinTotal => linCoord = LastHunkCoord
    /\ linCoord.hunkIndex >= 0

\* ------------------------------------------------------- cache: the claims
\* the key of a version tag, a model and a diff text
ReferenceKey(version, model, text) == sha1(<<version, ":", model, ":", text>>)

\* C18: loadCachedAnalysis returns a cached analysis only if the index
\* entry of (repo, commit) is the key of the current version, model and diff
\* text and the stored result has the current version; so a result cached
\* under one model is never returned for another model on the same diff, and
\* a result of another version is never returned.
C18_CacheKeyedByVersionModelDiff ==
  cached # <<>> =>
    /\ CacheUsable
    /\ diffIndex[<<repoDir, commitKey>>] = ReferenceKey(ANALYSIS_VERSION, selectedModel, gitDiff)
    /\ cached[1].version = ANALYSIS_VERSION
    /\ cached[1].origin = <<selectedModel, gitDiff>>
    /\ cached = analysisFiles[ReferenceKey(ANALYSIS_VERSION, selectedModel, gitDiff)]

\* a hit while the result of the other model for the same diff is on disk
C18_Witness ==
  /\ cached # <<>>
  /\ storedAnalysis = cached
  /\ \E other \in Models \ {selectedModel} :
       analysisFiles[ReferenceKey(ANALYSIS_VERSION, other, gitDiff)] # <<>>

\* -------------------------------------------------- navigation: the claims
\* the cycle FILE -> HUNK -> HUNK_ONLY -> INTELLIGENT -> FILE
CycleAfter(md) ==
  CASE md = Mode.FILE_NAVIGATION -> Mode.HUNK_NAVIGATION
    [] md = Mode.HUNK_NAVIGATION -> Mode.HUNK_ONLY
    [] md = Mode.HUNK_ONLY -> Mode.INTELLIGENT
    [] md = Mode.INTELLIGENT -> Mode.FILE_NAVIGATION

EveryFileHasHunk ==
  parsedFiles # <<>> /\ \A i \in 1..Len(parsedFiles) : Len(parsedFiles[i].hunks) >= 1

\* C26: over a non-empty file list in which every file has a hunk, the
\* stored currentFileIndex is an index of the file list displayed for the
\* current mode and the stored currentHunkIndex is an index of a hunk of
\* that file, after any sequence of keys.
C26_StoredIndicesInBounds ==
  EveryFileHasHunk =>
    /\ currentFileIndex \in 0..(Len(displayFiles) - 1)
    /\ currentHunkIndex \in 0..(Len(displayFiles[currentFileIndex + 1].hunks) - 1)

\* C27: whenever isAnalyzing is true it is eventually false again with an
\* analysis in the store, whether the result comes from the cache or from the
\* analyzer, the analyzer fails, or the cache cannot be written.
C27_AnalyzingEnds ==
  isAnalyzing ~> (~isAnalyzing /\ storedAnalysis # <<>>)

\* the run's repo root and commit key are known, and its cache key
RepoAndCommitKnown == repoDir \in Repos /\ commitKey \in Commits
RunKey == ReferenceKey(ANALYSIS_VERSION, selectedModel, gitDiff)
\* the step in which the awaited analyzeDiff has returned and runAnalysis
\* goes on to its end: storedAnalysis' is what analyzeDiff returned
AnalysisReturned == apc = "analyzing" /\ apc' = "idle" /\ storedAnalysis' # <<>>
\* the step of a run that looks the analysis up: the effect in INTELLIGENT
\* mode with a diff and no analysis in the store
AnalysisWanted ==
  /\ running /\ effectPending /\ ~effectPending'
  /\ mode = Mode.INTELLIGENT /\ gitDiff # "" /\ parsedFiles # <<>> /\ storedAnalysis = <<>>
\* an earlier run with this repo, commit, model and diff saved its result
SavedEarlier == <<repoDir, commitKey, RunKey>> \in saved
\* what analyzeDiff returned is on disk under the run's key
SavedAsReturned ==
  (AnalysisReturned /\ RepoAndCommitKnown) =>
    /\ analysisFiles'[RunKey] = storedAnalysis'
    /\ diffIndex'[<<repoDir, commitKey>>] = RunKey
    /\ SavedEarlier'
\* the run takes the saved result from the cache and starts no analysis
LoadsSaved ==
  /\ storedAnalysis' = analysisFiles[RunKey]
  /\ storedAnalysis' # <<>>
  /\ ~isAnalyzing' /\ apc' # "analyzing"
  /\ UNCHANGED diskVars

\* C28 as stated: what analyzeDiff returns is saved when repo root and
\* commit key are known, and every later run with the same repo, commit,
\* model and diff loads the saved result and invokes no analyzer.
C28_AsStated ==
  [][ /\ SavedAsReturned
      /\ (AnalysisWanted /\ RepoAndCommitKnown /\ SavedEarlier) => LoadsSaved ]_vars

\* C28 amended: what analyzeDiff returns is saved when repo root and commit
\* key are known, and a later run with the same repo, commit, model and diff
\* loads the saved result and invokes no analyzer as long as the index entry
\* of that repo and commit still holds the run's key.
C28_Amended ==
  [][ /\ SavedAsReturned
      /\ (AnalysisWanted /\ RepoAndCommitKnown /\ SavedEarlier
            /\ diffIndex[<<repoDir, commitKey>>] = RunKey) => LoadsSaved ]_vars

\* a run that loaded the empty-hunks result an earlier run had saved for the
\* same repo, commit, model and diff
C28_Witness ==
  /\ running /\ apc = "idle" /\ ~isAnalyzing
  /\ RepoAndCommitKnown /\ SavedEarlier
  /\ cached # <<>>
  /\ cached[1].hunks = <<>>
  /\ storedAnalysis = cached
  /\ cached = analysisFiles[RunKey]

====
